---- MODULE Spec2Model ----
(***************************************************************************)
(* Verification model of the BargainB admin product: the job orchestrator  *)
(* contract, the JobMonitor component, the retry helper, the catalog       *)
(* writes of the database agent and the outlier detection of the price     *)
(* validation agent.                                                       *)
(***************************************************************************)
EXTENDS Integers, Sequences, FiniteSets, TLC

VARIABLES
    \* ---- job orchestrator (control surface start / scheduler due-check)
    orchJobs,      \* sequence of Job records, index = job id
    mutex,         \* provider -> caller holding the provider mutex, or "free"
    callerPc,      \* caller -> position inside start()
    callerReq,     \* caller -> the request it is serving
    reply,         \* caller -> result of its last finished request
    \* ---- JobMonitor component (React state)
    jobs,          \* useState<ScrapingJob[]>
    stats,         \* useState<JobStatistics>
    loading,       \* useState(true)
    lastOp,        \* the handler that ran last
    prevOp,        \* the handler that ran before it
    lastResponse,  \* what getRecentJobs() resolved to in the last poll
    \* ---- retry_with_backoff(func, max_retries)
    rPc,           \* position in retry_with_backoff
    max_retries,   \* the argument of the running call
    attempt,       \* the loop variable
    outcomes,      \* what each call of func did, in order
    waits,         \* the sleeps taken, in order
    rResult,       \* how retry_with_backoff ended
    \* ---- price validation and database agents, and the catalog tables
    dbPc,                \* the node of the processing run that comes next
    scraped_products,    \* state["scraped_products"]
    validated_products,  \* state["validated_products"]
    validation_errors,   \* state["validation_errors"]
    database_errors,     \* state["database_errors"]
    products,            \* table products
    current_prices,      \* table current_prices
    price_history,       \* table price_history
    \* ---- PriceValidationAgent.detect_outliers
    oPc,                 \* "idle", or "detected" once detect_outliers has run
    historical_prices,   \* what price_history.get_prices(product id) returns
    observed,            \* the price of the validated product of the run
    outliers,            \* state["outliers"]
    \* ---- ProductStandardizationAgent.detect_duplicates
    ddPc,                \* "idle", "loaded", or "detected"
    processed_products,  \* state["processed_products"]
    duplicates,          \* state["duplicates"]
    \* ---- ErrorRecoveryAgent
    erPc,                \* the node of the recovery graph that comes next
    error,               \* state["error"]: the keywords str(error) contains
    error_type,          \* state["error_type"]
    recovery_result,     \* state["recovery_result"]
    strategyRuns,        \* recovery strategies run for the error
    erJob,               \* state of the Job the error belongs to
    erAlerts,            \* Alerts raised for the error
    \* ---- one run of a Job over the batches of its provider
    runState,            \* state of the Job
    connectResult,       \* how the initial connection went
    batchState,          \* batch -> "pending", "fetching", "writing", "committed", "failed"
    attempts,            \* batch -> attempts that count against max-attempts
    rlRetries,           \* batch -> rate-limit retries
    failKind,            \* batch -> kind of the failure that ended it
    stopRequested,       \* stop(jobId) was called
    stopReply,           \* the answer to stop(jobId)
    runAlerts,           \* Alerts of the run
    \* ---- two processing runs that write to the catalog tables concurrently
    rcPc,                \* run -> the statement that comes next
    rcValidated,         \* run -> its state["validated_products"]
    rcErrors,            \* run -> its state["database_errors"]
    \* ---- Schedule Resolver and the ProviderSchedule it serves
    clock,               \* now, in minutes since Monday 1 January 00:00 UTC
    schedule,            \* the stored ProviderSchedule
    scheduleError,       \* the error of the last PUT schedule
    due,                 \* the result of the last isDue
    next_run_at,         \* ProviderSchedule.next_run_at
    last_run_at,         \* ProviderSchedule.last_run_at
    \* ---- use-toast.ts: the module state and the useToast consumers
    toastCounter,        \* let toastCounter = 0
    toasts,              \* let toasts: Toast[] = []
    listeners,           \* the consumers whose setToastState is in listeners
    timers,              \* the pending setTimeout callbacks of addToast
    consumerPc,          \* consumer -> unmounted, rendered, subscribed or synced
    toastState,          \* consumer -> the toasts value of its useState
    \* ---- DashboardOverview component (React state)
    metrics,             \* useState<DashboardMetrics>
    stores,              \* useState<StoreData[]>
    chartData,           \* useState<ChartData[]>
    dashLoading,         \* useState(true)
    refreshing,          \* the calls of fetchDashboardData that await their fetches
    lastRefresh,         \* what the three fetches of the last finished call gave
    \* ---- StoreSchedulesPage: the create dialog and handleCreateSchedule
    newSchedule,         \* useState of the new schedule form
    isCreating,          \* useState(false): the create dialog is shown
    createPc,            \* position of handleCreateSchedule
    postsSent,           \* the POST requests sent so far
    fetchPending,        \* the calls of fetchData that have not finished
    createEvent,         \* the handler step that ran last
    \* ---- normalize_product_name
    rawName,             \* the name handed to normalize_product_name
    normalized           \* what it returned

orchVars == <<orchJobs, mutex, callerPc, callerReq, reply>>

monVars == <<jobs, stats, loading, lastOp, prevOp, lastResponse>>

retryVars == <<rPc, max_retries, attempt, outcomes, waits, rResult>>

outVars == <<oPc, historical_prices, observed, outliers>>

dbVars == <<dbPc, scraped_products, validated_products, validation_errors,
            database_errors, products, current_prices, price_history>>

baseVars == <<orchVars, monVars, retryVars, dbVars, outVars>>

dedupVars == <<ddPc, processed_products, duplicates>>

recoveryVars == <<erPc, error, error_type, recovery_result, strategyRuns, erJob, erAlerts>>

runVars == <<runState, connectResult, batchState, attempts, rlRetries, failKind, stopRequested, stopReply, runAlerts>>

raceVars == <<rcPc, rcValidated, rcErrors>>

scheduleVars == <<clock, schedule, scheduleError, due, next_run_at, last_run_at>>

toastVars == <<toastCounter, toasts, listeners, timers, consumerPc, toastState>>

dashboardVars == <<metrics, stores, chartData, dashLoading, refreshing, lastRefresh>>

createVars == <<newSchedule, isCreating, createPc, postsSent, fetchPending, createEvent>>

normalizeVars == <<rawName, normalized>>

\* the state of the components that follow the price pipeline
extVars == <<dedupVars, recoveryVars, runVars, raceVars, scheduleVars, toastVars, dashboardVars, createVars, normalizeVars>>

\* what the actions of one component leave unchanged
outsideDedup == <<baseVars, recoveryVars, runVars, raceVars, scheduleVars, toastVars, dashboardVars, createVars, normalizeVars>>

outsideRecovery == <<baseVars, dedupVars, runVars, raceVars, scheduleVars, toastVars, dashboardVars, createVars, normalizeVars>>

outsideRun == <<baseVars, dedupVars, recoveryVars, raceVars, scheduleVars, toastVars, dashboardVars, createVars, normalizeVars>>

\* the run state of the database agent, without the tables
dbRunState == <<dbPc, scraped_products, validated_products, validation_errors, database_errors>>

outsideRace == <<dbRunState, orchVars, monVars, retryVars, outVars, dedupVars, recoveryVars, runVars, scheduleVars, toastVars, dashboardVars, createVars, normalizeVars>>

outsideSchedule == <<baseVars, dedupVars, recoveryVars, runVars, raceVars, toastVars, dashboardVars, createVars, normalizeVars>>

outsideToast == <<baseVars, dedupVars, recoveryVars, runVars, raceVars, scheduleVars, dashboardVars, createVars, normalizeVars>>

outsideDashboard == <<baseVars, dedupVars, recoveryVars, runVars, raceVars, scheduleVars, toastVars, createVars, normalizeVars>>

outsideCreate == <<baseVars, dedupVars, recoveryVars, runVars, raceVars, scheduleVars, toastVars, dashboardVars, normalizeVars>>

outsideNormalize == <<baseVars, dedupVars, recoveryVars, runVars, raceVars, scheduleVars, toastVars, dashboardVars, createVars>>

vars == <<orchJobs, mutex, callerPc, callerReq, reply, jobs, stats, loading, lastOp,
          prevOp, lastResponse,
          rPc, max_retries, attempt, outcomes, waits, rResult,
          dbPc, scraped_products, validated_products, validation_errors,
          database_errors, products, current_prices, price_history,
          oPc, historical_prices, observed, outliers, extVars>>

(***************************************************************************)
(* Job orchestrator                                                        *)
(***************************************************************************)

\* the stores the task scheduler iterates over (two of them kept)
Providers == {"dirk", "jumbo"}

\* a provider name no adapter is registered for
UnknownProvider == "nostore"

\* scraping_jobs.job_type: a manual start asks for a full scrape, the task
\* scheduler creates price updates
KindOf(c) == IF c = "scheduler" THEN "price_update" ELSE "full_scrape"

\* two admin sessions and the scheduler tick
Callers == {"admin1", "admin2", "scheduler"}

\* cap on the number of Job records kept in the model
MaxJobs == 2

\* configured upper bound on simultaneously Running providers
PoolSize == 1

TerminalStates == {"Succeeded", "Failed", "PartiallyFailed"}

NonTerminalStates == {"Queued", "Running"}

JobIds == 1..Len(orchJobs)

NonTerminalJobs(p) ==
    {j \in JobIds : orchJobs[j].provider = p /\ orchJobs[j].state \in NonTerminalStates}

RunningJobs == {j \in JobIds : orchJobs[j].state = "Running"}

NoRequest == [provider |-> "none", kind |-> "none"]

InitOrch ==
    /\ orchJobs = <<>>
    /\ mutex = [p \in Providers |-> "free"]
    /\ callerPc = [c \in Callers |-> "idle"]
    /\ callerReq = [c \in Callers |-> NoRequest]
    /\ reply = [c \in Callers |-> "none"]

\* mutant: start() looks at the jobs without holding the provider mutex
MutexFree_NoLock(p) == p \in Providers

\* start() and the due-check take the provider mutex before looking at the jobs
MutexFree(p) == mutex[p] = "free"

\* mutant: the check for a non-terminal Job is left out
HasNonTerminalJob_Never(p) == p \notin Providers

\* a non-terminal Job of the provider exists
HasNonTerminalJob(p) == NonTerminalJobs(p) # {}

\* new jobs enter the state machine in Queued
NewJobState == "Queued"

\* mutant: the last slot of the pool is never handed out
SlotFree_OneShort == Cardinality(RunningJobs) < PoolSize - 1

\* mutant: a Queued Job is promoted whether or not a slot is free
SlotFree_Always == Cardinality(RunningJobs) >= 0

\* a slot of the global pool is free
SlotFree == Cardinality(RunningJobs) < PoolSize

\* start(provider, jobKind) with an unknown provider: synchronous validation failure
StartUnknown(c) ==
    /\ c # "scheduler"
    /\ callerPc[c] = "idle"
    /\ reply' = [reply EXCEPT ![c] = "ProviderUnknown"]
    /\ UNCHANGED <<orchJobs, mutex, callerPc, callerReq, monVars, retryVars, dbVars, outVars, extVars>>

\* start(provider, jobKind), or the scheduler finding the provider due: take the mutex
StartAcquire(c, p) ==
    /\ callerPc[c] = "idle"
    /\ MutexFree(p)
    /\ mutex' = [mutex EXCEPT ![p] = c]
    /\ callerPc' = [callerPc EXCEPT ![c] = "check"]
    /\ callerReq' = [callerReq EXCEPT ![c] = [provider |-> p, kind |-> KindOf(c)]]
    /\ reply' = [reply EXCEPT ![c] = "none"]
    /\ UNCHANGED <<orchJobs, monVars, retryVars, dbVars, outVars, extVars>>

\* under the mutex: a non-terminal Job of the provider rejects the request
\* (JobAlreadyRunning for a manual start; a due-check just skips the provider)
StartReject(c) ==
    /\ callerPc[c] = "check"
    /\ HasNonTerminalJob(callerReq[c].provider)
    /\ reply' = [reply EXCEPT ![c] = IF c = "scheduler" THEN "skipped" ELSE "JobAlreadyRunning"]
    /\ mutex' = [mutex EXCEPT ![callerReq[c].provider] = "free"]
    /\ callerPc' = [callerPc EXCEPT ![c] = "idle"]
    /\ callerReq' = [callerReq EXCEPT ![c] = NoRequest]
    /\ UNCHANGED <<orchJobs, monVars, retryVars, dbVars, outVars, extVars>>

\* under the mutex: no non-terminal Job was found, the request goes on to create one
StartAccept(c) ==
    /\ callerPc[c] = "check"
    /\ ~HasNonTerminalJob(callerReq[c].provider)
    /\ callerPc' = [callerPc EXCEPT ![c] = "create"]
    /\ UNCHANGED <<orchJobs, mutex, callerReq, reply, monVars, retryVars, dbVars, outVars, extVars>>

\* the Job is created in Queued, its id returned and the mutex released
StartCreate(c) ==
    /\ callerPc[c] = "create"
    /\ Len(orchJobs) < MaxJobs
    /\ orchJobs' = Append(orchJobs,
          [provider |-> callerReq[c].provider, kind |-> callerReq[c].kind,
           state |-> NewJobState])
    /\ reply' = [reply EXCEPT ![c] = "jobId"]
    /\ mutex' = [mutex EXCEPT ![callerReq[c].provider] = "free"]
    /\ callerPc' = [callerPc EXCEPT ![c] = "idle"]
    /\ callerReq' = [callerReq EXCEPT ![c] = NoRequest]
    /\ UNCHANGED <<monVars, retryVars, dbVars, outVars, extVars>>

\* a Queued Job acquires a slot of the global pool
AcquireSlot(j) ==
    /\ j \in JobIds
    /\ orchJobs[j].state = "Queued"
    /\ SlotFree
    /\ orchJobs' = [orchJobs EXCEPT ![j].state = "Running"]
    /\ UNCHANGED <<mutex, callerPc, callerReq, reply, monVars, retryVars, dbVars, outVars, extVars>>

\* a Running Job leaves Running with one of the terminal states
FinishJob(j, s) ==
    /\ j \in JobIds
    /\ orchJobs[j].state = "Running"
    /\ s \in TerminalStates
    /\ orchJobs' = [orchJobs EXCEPT ![j].state = s]
    /\ UNCHANGED <<mutex, callerPc, callerReq, reply, monVars, retryVars, dbVars, outVars, extVars>>

\* a Running Job comes to its end
JobTerminates(j) == \E s \in TerminalStates : FinishJob(j, s)

NextOrch ==
    \/ \E c \in Callers : StartUnknown(c)
    \/ \E c \in Callers, p \in Providers : StartAcquire(c, p)
    \/ \E c \in Callers : StartReject(c)
    \/ \E c \in Callers : StartAccept(c)
    \/ \E c \in Callers : StartCreate(c)
    \/ \E j \in 1..MaxJobs : AcquireSlot(j)
    \/ \E j \in 1..MaxJobs, s \in TerminalStates : FinishJob(j, s)

(***************************************************************************)
(* JobMonitor: polling of the recent jobs and the local job actions        *)
(***************************************************************************)

\* ScrapingJob.status
Statuses == {"pending", "running", "completed", "failed", "paused"}

\* the ScrapingJob records a poll can deliver for one job id
JobRecords(id) ==
    {[id |-> id, status |-> st, progress |-> c[1], productsProcessed |-> c[2],
      errorCount |-> c[3]] : st \in Statuses, c \in {<<0, 0, 0>>, <<50, 5, 1>>}}

\* the job lists a poll can deliver: each of two jobs present or not
ResponseJobLists ==
    {<<>>}
      \cup {<<a>> : a \in JobRecords("j1")}
      \cup {<<b>> : b \in JobRecords("j2")}
      \cup {<<a, b>> : a \in JobRecords("j1"), b \in JobRecords("j2")}

ZeroStats == [jobsToday |-> 0, successRate |-> 0, avgDuration |-> 0]

ResponseStats == {ZeroStats, [jobsToday |-> 3, successRate |-> 90, avgDuration |-> 12]}

\* what getRecentJobs() resolves to: the edge function object, the same object
\* without statistics, the old bare array, something else, or a rejection
ResponseShapes == {"object", "nostatistics", "array", "other", "throws"}

\* the values getRecentJobs() resolves to, each shape with the fields it has
Responses ==
    {[shape |-> "object", jobs |-> rjobs, statistics |-> rstats] :
        rjobs \in ResponseJobLists, rstats \in ResponseStats}
      \cup {[shape |-> shape, jobs |-> rjobs] :
              shape \in {"nostatistics", "array"}, rjobs \in ResponseJobLists}
      \cup {[shape |-> shape] : shape \in ResponseShapes \ {"object", "nostatistics", "array"}}

NoResponse == [shape |-> "none"]

InitMonitor ==
    /\ jobs = <<>>
    /\ stats = ZeroStats
    /\ loading = TRUE
    /\ lastOp = "mount"
    /\ prevOp = "mount"
    /\ lastResponse = NoResponse

\* response && typeof response === 'object' && response.jobs && response.statistics
IsEdgeFormat(response) == response.shape = "object"

\* mutant: a response of another shape or a failed fetch leaves the list alone
JobsFrom_KeepOnOther(response) ==
    IF IsEdgeFormat(response) THEN response.jobs
    ELSE IF response.shape = "array" THEN response.jobs
    ELSE jobs

\* the argument of setJobs in fetchJobData; an array response is the list
JobsFrom(response) ==
    IF IsEdgeFormat(response) THEN response.jobs
    ELSE IF response.shape = "array" THEN response.jobs
    ELSE <<>>

\* fetchJobData: one completed poll
fetchJobData(response) ==
    /\ jobs' = JobsFrom(response)
    /\ stats' = IF IsEdgeFormat(response) THEN response.statistics ELSE ZeroStats
    /\ loading' = FALSE
    /\ lastOp' = "fetchJobData"
    /\ prevOp' = lastOp
    /\ lastResponse' = response
    /\ UNCHANGED <<orchVars, retryVars, dbVars, outVars, extVars>>

\* the job a retry leaves behind
RetriedJob(job) ==
    [job EXCEPT !.status = "pending", !.progress = 0, !.productsProcessed = 0,
                !.errorCount = 0]

\* the body of the map callback of handleJobAction for the matching job
ApplyAction(job, action) ==
    CASE action = "pause" -> [job EXCEPT !.status = "paused"]
      [] action = "resume" -> [job EXCEPT !.status = "running"]
      [] action = "stop" -> [job EXCEPT !.status = "failed"]
      [] action = "retry" -> RetriedJob(job)
      [] OTHER -> job

\* handleJobAction: prev.map(job => job.id === jobId ? ... : job)
handleJobAction(prev, jobId, action) ==
    [i \in 1..Len(prev) |->
        IF prev[i].id = jobId THEN ApplyAction(prev[i], action) ELSE prev[i]]

\* mutant: a completed job offers the retry button as well
ButtonsFor_RetryCompleted(status) ==
    CASE status = "running" -> {"pause", "stop"}
      [] status = "paused" -> {"resume"}
      [] status \in {"failed", "completed"} -> {"retry"}
      [] OTHER -> {}

\* the action buttons rendered for a job of the given status
ButtonsFor(status) ==
    CASE status = "running" -> {"pause", "stop"}
      [] status = "paused" -> {"resume"}
      [] status = "failed" -> {"retry"}
      [] OTHER -> {}

\* a click on one of the rendered buttons of job i
ClickButton(i, action) ==
    /\ ~loading
    /\ i \in 1..Len(jobs)
    /\ action \in ButtonsFor(jobs[i].status)
    /\ jobs' = handleJobAction(jobs, jobs[i].id, action)
    /\ lastOp' = action
    /\ prevOp' = lastOp
    /\ UNCHANGED <<stats, loading, lastResponse, orchVars, retryVars, dbVars, outVars, extVars>>

NextMonitor ==
    \/ \E response \in Responses : fetchJobData(response)
    \/ \E i \in DOMAIN jobs, action \in {"pause", "resume", "stop", "retry"} :
          ClickButton(i, action)

(***************************************************************************)
(* retry_with_backoff                                                      *)
(***************************************************************************)

\* default of the max_retries parameter
DefaultMaxRetries == 3

\* largest max_retries a caller passes in the model
MaxRetryArg == 4

\* the values callers pass for max_retries
RetryArgs == 0..MaxRetryArg

\* what one call of func does: it returns, or raises one of these
FuncOutcomes == {"ok", "RateLimitError", "NetworkError", "StorageError", "OtherError"}

\* the exceptions the except clause catches
Caught == {"RateLimitError"}

\* random.uniform(0, 1), rounded to its two ends
Jitter == {0, 1}

\* 2 ** attempt
RECURSIVE Pow2(_)
Pow2(n) == IF n = 0 THEN 1 ELSE 2 * Pow2(n - 1)

\* mutant: one iteration too many
LoopContinues_OffByOne == attempt <= max_retries

\* for attempt in range(max_retries): the loop has another iteration
LoopContinues == attempt < max_retries

InitRetry ==
    /\ rPc = "idle"
    /\ max_retries = DefaultMaxRetries
    /\ attempt = 0
    /\ outcomes = <<>>
    /\ waits = <<>>
    /\ rResult = "none"

\* retry_with_backoff(func, max_retries=m) is called
RetryCall(m) ==
    /\ rPc \in {"idle", "returned", "raised"}
    /\ rPc' = "loop"
    /\ max_retries' = m
    /\ attempt' = 0
    /\ outcomes' = <<>>
    /\ waits' = <<>>
    /\ rResult' = "none"
    /\ UNCHANGED <<orchVars, monVars, dbVars, outVars, extVars>>

\* one iteration: await func(); return its value, sleep on RateLimitError, let
\* any other exception leave the function
RetryAttempt(o) ==
    /\ rPc = "loop"
    /\ LoopContinues
    /\ outcomes' = Append(outcomes, o)
    /\ rPc' = IF o = "ok" THEN "returned" ELSE IF o \in Caught THEN "sleep" ELSE "raised"
    /\ rResult' = IF o \in Caught THEN rResult ELSE o
    /\ UNCHANGED <<max_retries, attempt, waits, orchVars, monVars, dbVars, outVars, extVars>>

\* await asyncio.sleep((2 ** attempt) + random.uniform(0, 1)), then the next iteration
RetrySleep(jitter) ==
    /\ rPc = "sleep"
    /\ waits' = Append(waits, Pow2(attempt) + jitter)
    /\ attempt' = attempt + 1
    /\ rPc' = "loop"
    /\ UNCHANGED <<max_retries, outcomes, rResult, orchVars, monVars, dbVars, outVars, extVars>>

\* the loop is over: raise Exception("Max retries exceeded")
RetryExhausted ==
    /\ rPc = "loop"
    /\ ~LoopContinues
    /\ rPc' = "raised"
    /\ rResult' = "Max retries exceeded"
    /\ UNCHANGED <<max_retries, attempt, outcomes, waits, orchVars, monVars, dbVars, outVars, extVars>>

NextRetry ==
    \/ \E m \in RetryArgs : RetryCall(m)
    \/ \E o \in FuncOutcomes : RetryAttempt(o)
    \/ \E jitter \in Jitter : RetrySleep(jitter)
    \/ RetryExhausted

(***************************************************************************)
(* Price validation, product upsert and price update against the catalog   *)
(* tables.  The wall-clock columns (updated_at, last_updated, created_at)  *)
(* and the generated row ids are not kept: a row's position is its id.     *)
(***************************************************************************)

\* cap on the rows of price_history kept in the model
MaxHistoryRows == 3

Product(id, name, nname, brand, barcode, price, category, spid, at) ==
    [id |-> id, name |-> name, normalized_name |-> nname, brand |-> brand,
     barcode |-> barcode, price |-> price, category |-> category,
     store_product_id |-> spid, scraped_at |-> at]

\* products.barcode is nullable
NoBarcode == "NULL"

\* the records a scrape can deliver
ScrapedRecords ==
    { Product(1, <<"M", "e", "l", "k">>, "melk", "ah", "8710", 2, "dairy", "sp1", 1),
      Product(1, <<"M", "e", "l", "k">>, "melk", "ah", NoBarcode, 3, "dairy", "sp1", 2),
      Product(2, <<"V", "l", "a">>, "vla", "ah", "8710", 3, "dairy", "sp2", 1),
      Product(3, <<"K", "a", "a", "s">>, "kaas", "ah", NoBarcode, 0, "dairy", "sp3", 1),
      Product(3, <<"K", "a", "a", "s">>, "kaas", "ah", NoBarcode, -1, "dairy", "sp3", 2),
      Product(4, <<"E", "i">>, "ei", "ah", NoBarcode, 2, "dairy", "sp4", 1),
      Product(5, <<"B", "r", "o", "o", "d">>, "brood", "ah", NoBarcode, 2, "", "sp5", 1),
      [id |-> 6, name |-> <<"J", "a", "m">>, normalized_name |-> "jam", brand |-> "ah",
       barcode |-> NoBarcode, category |-> "pantry", store_product_id |-> "sp6",
       scraped_at |-> 1] }

\* one scrape lists a product once: the batches are one record, or two records
\* of different products in the order of their ids
Batches ==
    {<<r>> : r \in ScrapedRecords}
      \cup {pair \in ScrapedRecords \X ScrapedRecords : pair[1].id < pair[2].id}

\* product.get('price', 0)
GetPrice(product) == IF "price" \in DOMAIN product THEN product.price ELSE 0

\* mutant: a price of zero passes
InvalidPrice_ZeroPasses(product) == GetPrice(product) < 0

\* product.get('price', 0) <= 0
InvalidPrice(product) == GetPrice(product) <= 0

\* validate_product_data: the list of errors of one product
validate_product_data(product) ==
    (IF Len(product.name) < 3 THEN <<"Product name too short">> ELSE <<>>)
      \o (IF InvalidPrice(product) THEN <<"Invalid price">> ELSE <<>>)
      \o (IF product.category = "" THEN <<"Missing category">> ELSE <<>>)

\* validate_single_price: the business rules are those of validate_product_data
validate_single_price(product) ==
    [valid |-> validate_product_data(product) = <<>>,
     errors |-> validate_product_data(product)]

\* the products validate_prices keeps
ValidOf(batch) ==
    LET Valid(product) == validate_single_price(product).valid
    IN SelectSeq(batch, Valid)

\* the errors validate_prices records
RECURSIVE ErrorsOf(_)
ErrorsOf(batch) ==
    IF batch = <<>> THEN <<>>
    ELSE (IF validate_single_price(Head(batch)).valid THEN <<>>
          ELSE <<[product_id |-> Head(batch).id,
                  errors |-> validate_single_price(Head(batch)).errors]>>)
         \o ErrorsOf(Tail(batch))

\* the row upsert_products writes for a product
ProductRow(product) ==
    [name |-> product.name, normalized_name |-> product.normalized_name,
     brand |-> product.brand, barcode |-> product.barcode]

\* on_conflict="normalized_name,brand"
ProductConflict(row, new) ==
    row.normalized_name = new.normalized_name /\ row.brand = new.brand

\* upsert of one row into products
UpsertProductRow(table, new) ==
    IF \E i \in DOMAIN table : ProductConflict(table[i], new)
    THEN [i \in DOMAIN table |-> IF ProductConflict(table[i], new) THEN new ELSE table[i]]
    ELSE Append(table, new)

\* table("products").upsert(upsert_data, on_conflict="normalized_name,brand")
RECURSIVE UpsertProducts(_, _)
UpsertProducts(table, batch) ==
    IF batch = <<>> THEN table
    ELSE UpsertProducts(UpsertProductRow(table, ProductRow(Head(batch))), Tail(batch))

\* the row update_prices builds for current_prices
CurrentRow(product) ==
    [store_product_id |-> product.store_product_id, price |-> product.price]

\* the row update_prices builds for price_history
HistoryRow(product) ==
    [store_product_id |-> product.store_product_id, price |-> product.price,
     scraped_at |-> product.scraped_at]

\* upsert of one row into current_prices, on_conflict="store_product_id"
UpsertCurrentRow(table, new) ==
    IF \E i \in DOMAIN table : table[i].store_product_id = new.store_product_id
    THEN [i \in DOMAIN table |->
            IF table[i].store_product_id = new.store_product_id THEN new ELSE table[i]]
    ELSE Append(table, new)

\* table("current_prices").upsert(current_prices, on_conflict="store_product_id")
RECURSIVE UpsertCurrent(_, _)
UpsertCurrent(table, batch) ==
    IF batch = <<>> THEN table
    ELSE UpsertCurrent(UpsertCurrentRow(table, CurrentRow(Head(batch))), Tail(batch))

\* table("price_history").insert(price_history)
RECURSIVE InsertHistory(_, _)
InsertHistory(table, batch) ==
    IF batch = <<>> THEN table
    ELSE InsertHistory(Append(table, HistoryRow(Head(batch))), Tail(batch))

InitDb ==
    /\ dbPc = "idle"
    /\ scraped_products = <<>>
    /\ validated_products = <<>>
    /\ validation_errors = <<>>
    /\ database_errors = <<>>
    /\ products = <<>>
    /\ current_prices = <<>>
    /\ price_history = <<>>

\* a scraper hands a batch to a new processing run
Scrape(batch) ==
    /\ dbPc = "idle"
    /\ Len(price_history) + Len(batch) <= MaxHistoryRows
    /\ scraped_products' = batch
    /\ validated_products' = <<>>
    /\ validation_errors' = <<>>
    /\ database_errors' = <<>>
    /\ dbPc' = "validate_prices"
    /\ UNCHANGED <<products, current_prices, price_history, orchVars, monVars, retryVars, outVars, extVars>>

\* PriceValidationAgent.validate_prices
validate_prices ==
    /\ dbPc = "validate_prices"
    /\ validated_products' = ValidOf(scraped_products)
    /\ validation_errors' = ErrorsOf(scraped_products)
    /\ dbPc' = "upsert_products"
    /\ UNCHANGED <<scraped_products, database_errors, products, current_prices,
                   price_history, orchVars, monVars, retryVars, outVars, extVars>>

\* DatabaseOperationsAgent.upsert_products: the upsert succeeds, or raises and
\* the error is recorded
upsert_products(ok) ==
    /\ dbPc = "upsert_products"
    /\ products' = IF ok THEN UpsertProducts(products, validated_products) ELSE products
    /\ database_errors' = IF ok THEN database_errors
                          ELSE Append(database_errors, "products")
    /\ dbPc' = "update_prices"
    /\ UNCHANGED <<scraped_products, validated_products, validation_errors,
                   current_prices, price_history, orchVars, monVars, retryVars, outVars, extVars>>

\* product["price"] raises KeyError on a record without the field
HasPrice(product) == "price" \in DOMAIN product

\* DatabaseOperationsAgent.update_prices: building the rows raises KeyError
\* before any statement runs, or both statements succeed, or the first
\* raises, or the second raises after the first was executed
update_prices(outcome) ==
    /\ dbPc = "update_prices"
    /\ IF \E i \in DOMAIN validated_products : ~HasPrice(validated_products[i])
       THEN /\ current_prices' = current_prices
            /\ price_history' = price_history
            /\ database_errors' = Append(database_errors, "KeyError")
       ELSE /\ current_prices' = IF outcome = "upsert raises" THEN current_prices
                                 ELSE UpsertCurrent(current_prices, validated_products)
            /\ price_history' = IF outcome = "ok"
                                THEN InsertHistory(price_history, validated_products)
                                ELSE price_history
            /\ database_errors' = IF outcome = "ok" THEN database_errors
                                  ELSE Append(database_errors, outcome)
    /\ dbPc' = "idle"
    /\ UNCHANGED <<scraped_products, validated_products, validation_errors,
                   products, orchVars, monVars, retryVars, outVars, extVars>>

NextDb ==
    \/ \E batch \in Batches : Scrape(batch)
    \/ validate_prices
    \/ \E ok \in BOOLEAN : upsert_products(ok)
    \/ \E outcome \in {"ok", "upsert raises", "insert raises"} : update_prices(outcome)

(***************************************************************************)
(* Outlier detection of the price validation agent, for one product        *)
(***************************************************************************)

\* cap on the history points kept in the model
MaxHistoryLen == 12

\* the prices past scrapes recorded
HistoryPrices == {16, 17}

\* the prices a new observation can have
ObservedPrices == {16, 40}

\* the threshold of "if len(historical_prices) > 10"
MinHistoryPoints == 10

RECURSIVE SeqMin(_)
SeqMin(q) ==
    IF Len(q) = 1 THEN q[1]
    ELSE LET rest == SeqMin(Tail(q)) IN IF q[1] < rest THEN q[1] ELSE rest

RECURSIVE SeqMax(_)
SeqMax(q) ==
    IF Len(q) = 1 THEN q[1]
    ELSE LET rest == SeqMax(Tail(q)) IN IF q[1] > rest THEN q[1] ELSE rest

\* outlier_detector.get_expected_range: the range the trailing history spans
get_expected_range(history) == <<SeqMin(history), SeqMax(history)>>

\* outlier_detector.detect: the price lies outside the expected range
detect(price, history) ==
    price < get_expected_range(history)[1] \/ price > get_expected_range(history)[2]

\* mutant: ten points are taken to be enough
EnoughHistory_AtLeast(history) == Len(history) >= MinHistoryPoints

\* len(historical_prices) > 10
EnoughHistory(history) == Len(history) > MinHistoryPoints

\* the outliers detect_outliers collects for the product
OutliersOf(price, history) ==
    IF EnoughHistory(history) /\ detect(price, history)
    THEN <<[product_id |-> 1, current_price |-> price,
            expected_range |-> get_expected_range(history)]>>
    ELSE <<>>

InitOutlier ==
    /\ oPc = "idle"
    /\ historical_prices = <<>>
    /\ observed = 0
    /\ outliers = <<>>

\* an earlier scrape adds a point to the product's history
RecordPrice(price) ==
    /\ oPc = "idle"
    /\ Len(historical_prices) < MaxHistoryLen
    /\ historical_prices' = Append(historical_prices, price)
    /\ UNCHANGED <<oPc, observed, outliers, orchVars, monVars, retryVars, dbVars, extVars>>

\* PriceValidationAgent.detect_outliers for a validated product with this price
detect_outliers(price) ==
    /\ oPc = "idle"
    /\ observed' = price
    /\ outliers' = OutliersOf(price, historical_prices)
    /\ oPc' = "detected"
    /\ UNCHANGED <<historical_prices, orchVars, monVars, retryVars, dbVars, extVars>>

\* the run is over, the next one starts from a fresh state
NextValidation ==
    /\ oPc = "detected"
    /\ oPc' = "idle"
    /\ observed' = 0
    /\ outliers' = <<>>
    /\ UNCHANGED <<historical_prices, orchVars, monVars, retryVars, dbVars, extVars>>

NextOutlier ==
    \/ \E price \in HistoryPrices : RecordPrice(price)
    \/ \E price \in ObservedPrices : detect_outliers(price)
    \/ NextValidation

(***************************************************************************)
(* Duplicate detection of the product standardization agent               *)
(***************************************************************************)

\* cap on the number of products of one detection pass
MaxProducts == 3

\* the threshold of detect_duplicates, in hundredths
DuplicateThreshold == 85

Entity(id, tokens, brand, barcode) ==
    [id |-> id, name_tokens |-> tokens, brand |-> brand, barcode |-> barcode]

\* the normalized products a pass can be given
NormalizedEntities ==
    { Entity(1, {"nutrilon", "baby", "formula"}, "nutrilon", "8712"),
      Entity(2, {"nutrilon", "baby", "formula", "800g"}, "nutrilon", NoBarcode),
      Entity(3, {"nutrilon", "baby", "formula"}, "nutrilon", NoBarcode),
      Entity(4, {"melk"}, "ah", "8710"),
      Entity(5, {"halfvolle", "melk"}, "jumbo", "8710") }

\* the lists of distinct products, up to MaxProducts long
RECURSIVE ProductLists(_)
ProductLists(n) ==
    IF n = 0 THEN {<<>>}
    ELSE ProductLists(n - 1)
           \cup {Append(l, e) : l \in {m \in ProductLists(n - 1) : Len(m) = n - 1},
                                e \in NormalizedEntities}

DistinctLists ==
    {l \in ProductLists(MaxProducts) :
        Len(l) >= 1 /\ \A i, j \in DOMAIN l : i # j => l[i].id # l[j].id}

\* share of common name tokens, in hundredths
TokenOverlap(a, b) ==
    (100 * Cardinality(a.name_tokens \cap b.name_tokens))
        \div Cardinality(a.name_tokens \cup b.name_tokens)

\* calculate_similarity, in hundredths: equal external codes decide, otherwise
\* name tokens and brand equality are weighed
calculate_similarity(product1, product2) ==
    IF product1.barcode # NoBarcode /\ product1.barcode = product2.barcode
    THEN 100
    ELSE (60 * TokenOverlap(product1, product2)
            + 40 * (IF product1.brand = product2.brand THEN 100 ELSE 0)) \div 100

\* mutant: the inner loop skips the product next to product1
InnerStart_SkipNext(i) == i + 2

\* enumerate(products[i+1:], i+1): the first index of the inner loop
InnerStart(i) == i + 1

\* mutant: a pair at the threshold is reported too
IsDuplicate_AtLeast(similarity) == similarity >= DuplicateThreshold

\* similarity > 0.85
IsDuplicate(similarity) == similarity > DuplicateThreshold

\* the loops of detect_duplicates from the pair (i, j) on
RECURSIVE DetectFrom(_, _, _)
DetectFrom(list, i, j) ==
    IF i > Len(list) THEN <<>>
    ELSE IF j > Len(list) THEN DetectFrom(list, i + 1, InnerStart(i + 1))
    ELSE (IF IsDuplicate(calculate_similarity(list[i], list[j]))
          THEN <<[product1_id |-> list[i].id, product2_id |-> list[j].id,
                  similarity |-> calculate_similarity(list[i], list[j])]>>
          ELSE <<>>)
         \o DetectFrom(list, i, j + 1)

InitDedup ==
    /\ ddPc = "idle"
    /\ processed_products = <<>>
    /\ duplicates = <<>>

\* normalize_names leaves the products of the pass in state["processed_products"]
normalize_names(list) ==
    /\ ddPc \in {"idle", "detected"}
    /\ processed_products' = list
    /\ duplicates' = <<>>
    /\ ddPc' = "loaded"
    /\ UNCHANGED outsideDedup

\* ProductStandardizationAgent.detect_duplicates
detect_duplicates ==
    /\ ddPc = "loaded"
    /\ duplicates' = DetectFrom(processed_products, 1, InnerStart(1))
    /\ ddPc' = "detected"
    /\ UNCHANGED <<processed_products, outsideDedup>>

NextDedup ==
    \/ \E list \in DistinctLists : normalize_names(list)
    \/ detect_duplicates

(***************************************************************************)
(* Error recovery agent: classification of an error and its recovery       *)
(***************************************************************************)

\* the substrings classify_error looks for in str(error)
Keywords == {"network", "timeout", "rate limit", "429", "parsing", "html",
             "database", "connection"}

\* the errors handed to the agent, each given by the keywords its text holds;
\* the text "Max retries exceeded" holds none
ErrorTexts == SUBSET Keywords

\* "keyword" in str(error).lower()
Contains(text, keyword) == keyword \in text

\* classify_error: the first matching branch decides
ClassOf(text) ==
    IF Contains(text, "network") \/ Contains(text, "timeout") THEN "network_error"
    ELSE IF Contains(text, "rate limit") \/ Contains(text, "429") THEN "rate_limit"
    ELSE IF Contains(text, "parsing") \/ Contains(text, "html") THEN "parsing_error"
    ELSE IF Contains(text, "database") \/ Contains(text, "connection") THEN "database_error"
    ELSE "unknown"

\* the keys of self.retry_strategies
RetryStrategies == {"network_error", "rate_limit", "parsing_error", "database_error"}

\* mutant: an error type without a strategy falls back to a default one
HasStrategy_Fallback(type) == type \in RetryStrategies \cup {"unknown"}

\* error_type in self.retry_strategies
HasStrategy(type) == type \in RetryStrategies

NoResult == [success |-> FALSE, message |-> "none"]

\* the terminal state a failed recovery leaves the Job in
FailedJobState(type) ==
    CASE type = "network_error" -> "PartiallyFailed"
      [] type = "rate_limit" -> "PartiallyFailed"
      [] type = "parsing_error" -> "Running"
      [] OTHER -> "Failed"

\* severity of the Alert of a failed recovery
Severity(type) == IF type = "unknown" THEN "high" ELSE "medium"

InitRecovery ==
    /\ erPc = "idle"
    /\ error = {}
    /\ error_type = "none"
    /\ recovery_result = NoResult
    /\ strategyRuns = 0
    /\ erJob = "Running"
    /\ erAlerts = {}

\* an error of a running Job reaches the agent
RaiseError(text) ==
    /\ erPc \in {"idle", "done"}
    /\ error' = text
    /\ error_type' = "none"
    /\ recovery_result' = NoResult
    /\ strategyRuns' = 0
    /\ erJob' = "Running"
    /\ erAlerts' = {}
    /\ erPc' = "classify_error"
    /\ UNCHANGED outsideRecovery

\* ErrorRecoveryAgent.classify_error
classify_error ==
    /\ erPc = "classify_error"
    /\ error_type' = ClassOf(error)
    /\ erPc' = "execute_recovery"
    /\ UNCHANGED <<error, recovery_result, strategyRuns, erJob, erAlerts, outsideRecovery>>

\* ErrorRecoveryAgent.execute_recovery: the strategy of the error type runs and
\* succeeds or not, or there is none
execute_recovery(success) ==
    /\ erPc = "execute_recovery"
    /\ IF HasStrategy(error_type)
       THEN /\ recovery_result' = [success |-> success, message |-> "strategy"]
            /\ strategyRuns' = strategyRuns + 1
       ELSE /\ recovery_result' =
                  [success |-> FALSE, message |-> "No recovery strategy available"]
            /\ strategyRuns' = strategyRuns
    /\ erPc' = "notify_admin"
    /\ UNCHANGED <<error, error_type, erJob, erAlerts, outsideRecovery>>

\* notify_admin: a failed recovery ends the Job and raises an Alert
notify_admin ==
    /\ erPc = "notify_admin"
    /\ IF recovery_result.success
       THEN UNCHANGED <<erJob, erAlerts>>
       ELSE /\ erJob' = FailedJobState(error_type)
            /\ erAlerts' = erAlerts \cup {[severity |-> Severity(error_type),
                                           kind |-> error_type]}
    /\ erPc' = "done"
    /\ UNCHANGED <<error, error_type, recovery_result, strategyRuns, outsideRecovery>>

NextRecovery ==
    \/ \E text \in ErrorTexts : RaiseError(text)
    \/ classify_error
    \/ \E success \in BOOLEAN : execute_recovery(success)
    \/ notify_admin

(***************************************************************************)
(* A run of a Job: batches, failure policies, cooperative stop             *)
(***************************************************************************)

\* batches of one run in the model
NumBatches == 2

\* max-attempts of the retry policy
MaxAttempts == 3

\* ceiling of the rate-limit retries of a batch
RateLimitCeiling == 1

BatchIds == 1..NumBatches

\* failure kinds an adapter call can report
FetchFailures == {"Transient-Network", "RateLimited", "Unknown"}

\* mutant: an exhausted StorageError is handled like an exhausted network failure
FatalKinds_NoStorage == {"Unknown"}

\* failure kinds that are fatal for the run
FatalKinds == {"StorageError", "Unknown"}

\* the run met a fatal failure
Fatal ==
    \/ connectResult \in {"connection failed", "no data"}
    \/ \E b \in BatchIds : failKind[b] \in FatalKinds

InFlightBatches == {b \in BatchIds : batchState[b] \in {"fetching", "writing"}}

AllSettled == \A b \in BatchIds : batchState[b] \in {"committed", "failed"}

AllCommitted == \A b \in BatchIds : batchState[b] = "committed"

\* mutant: a stop is forgotten when the run comes to its end
OutcomesOf_StopIgnored ==
    IF Fatal THEN {"Failed"}
    ELSE IF AllCommitted THEN {"Succeeded"}
    ELSE {"PartiallyFailed"}

\* mutant: a run with a failed batch is Failed
OutcomesOf_NoPartial ==
    IF Fatal THEN {"Failed"}
    ELSE IF stopRequested THEN {"Failed", "PartiallyFailed"}
    ELSE IF AllCommitted THEN {"Succeeded"}
    ELSE {"Failed"}

\* the terminal states a run may take when it leaves Running
OutcomesOf ==
    IF Fatal THEN {"Failed"}
    ELSE IF stopRequested THEN {"Failed", "PartiallyFailed"}
    ELSE IF AllCommitted THEN {"Succeeded"}
    ELSE {"PartiallyFailed"}

\* severity of the Alert of a failure kind
AlertFor(kind) ==
    [severity |-> IF kind \in {"Unknown", "StorageError", "ConnectionFailed"}
                  THEN "high" ELSE "medium",
     kind |-> kind]

InitRun ==
    /\ runState = "Queued"
    /\ connectResult = "none"
    /\ batchState = [b \in BatchIds |-> "pending"]
    /\ attempts = [b \in BatchIds |-> 0]
    /\ rlRetries = [b \in BatchIds |-> 0]
    /\ failKind = [b \in BatchIds |-> "none"]
    /\ stopRequested = FALSE
    /\ stopReply = "none"
    /\ runAlerts = {}

\* the Job acquires its slot and connects to the provider
Connect(outcome) ==
    /\ runState = "Queued"
    /\ connectResult' = IF stopRequested THEN connectResult ELSE outcome
    /\ runState' = IF stopRequested \/ outcome # "ok" THEN "Failed" ELSE "Running"
    /\ runAlerts' = IF ~stopRequested /\ outcome # "ok"
                    THEN runAlerts \cup {AlertFor("ConnectionFailed")} ELSE runAlerts
    /\ UNCHANGED <<batchState, attempts, rlRetries, failKind, stopRequested, stopReply,
                   outsideRun>>

\* the adapter is invoked for a batch
StartBatch(b) ==
    /\ runState = "Running"
    /\ ~stopRequested
    /\ ~Fatal
    /\ batchState[b] = "pending"
    /\ batchState' = [batchState EXCEPT ![b] = "fetching"]
    /\ UNCHANGED <<runState, connectResult, attempts, rlRetries, failKind, stopRequested,
                   stopReply, runAlerts, outsideRun>>

\* the adapter call returned its records: the writes of the batch begin
FetchOk(b) ==
    /\ runState = "Running"
    /\ batchState[b] = "fetching"
    /\ batchState' = [batchState EXCEPT ![b] = "writing"]
    /\ UNCHANGED <<runState, connectResult, attempts, rlRetries, failKind, stopRequested,
                   stopReply, runAlerts, outsideRun>>

\* a failure that counts against max-attempts: retry, or give the batch up
CountedFailure(b, kind) ==
    /\ attempts' = [attempts EXCEPT ![b] = @ + 1]
    /\ IF attempts[b] + 1 >= MaxAttempts
       THEN /\ batchState' = [batchState EXCEPT ![b] = "failed"]
            /\ failKind' = [failKind EXCEPT ![b] = kind]
            /\ runAlerts' = runAlerts \cup {AlertFor(kind)}
       ELSE /\ batchState' = [batchState EXCEPT ![b] = "pending"]
            /\ UNCHANGED <<failKind, runAlerts>>

\* the adapter call failed with a network failure or a timeout
FetchFailNetwork(b) ==
    /\ runState = "Running"
    /\ batchState[b] = "fetching"
    /\ CountedFailure(b, "Transient-Network")
    /\ UNCHANGED <<runState, connectResult, rlRetries, stopRequested, stopReply, outsideRun>>

\* the adapter call was rate limited: cooldown and retry, counted against
\* max-attempts only above the rate-limit ceiling
FetchFailRateLimited(b) ==
    /\ runState = "Running"
    /\ batchState[b] = "fetching"
    /\ IF rlRetries[b] < RateLimitCeiling
       THEN /\ rlRetries' = [rlRetries EXCEPT ![b] = @ + 1]
            /\ batchState' = [batchState EXCEPT ![b] = "pending"]
            /\ UNCHANGED <<attempts, failKind, runAlerts>>
       ELSE /\ CountedFailure(b, "RateLimited")
            /\ UNCHANGED rlRetries
    /\ UNCHANGED <<runState, connectResult, stopRequested, stopReply, outsideRun>>

\* a failure of unknown kind: the run is aborted at once, what was in flight
\* is rolled back
FetchFailUnknown(b) ==
    /\ runState = "Running"
    /\ batchState[b] = "fetching"
    /\ batchState' = [c \in BatchIds |->
                        IF c = b THEN "failed"
                        ELSE IF c \in InFlightBatches THEN "pending" ELSE batchState[c]]
    /\ failKind' = [failKind EXCEPT ![b] = "Unknown"]
    /\ runState' = "Failed"
    /\ runAlerts' = runAlerts \cup {AlertFor("Unknown")}
    /\ UNCHANGED <<connectResult, attempts, rlRetries, stopRequested, stopReply, outsideRun>>

\* all writes of the batch are committed
WriteCommit(b) ==
    /\ runState = "Running"
    /\ batchState[b] = "writing"
    /\ batchState' = [batchState EXCEPT ![b] = "committed"]
    /\ UNCHANGED <<runState, connectResult, attempts, rlRetries, failKind, stopRequested,
                   stopReply, runAlerts, outsideRun>>

\* a storage failure: the batch is rolled back, and retried as a unit or given up
WriteFail(b) ==
    /\ runState = "Running"
    /\ batchState[b] = "writing"
    /\ CountedFailure(b, "StorageError")
    /\ UNCHANGED <<runState, connectResult, rlRetries, stopRequested, stopReply, outsideRun>>

\* stop(jobId): the request is recorded and answered
StopRequest ==
    /\ runState \in {"Queued", "Running"}
    /\ ~stopRequested
    /\ stopRequested' = TRUE
    /\ stopReply' = "accepted"
    /\ UNCHANGED <<runState, connectResult, batchState, attempts, rlRetries, failKind,
                   runAlerts, outsideRun>>

\* the run leaves Running once nothing is in flight and it has nothing to start
FinishRun(state) ==
    /\ runState = "Running"
    /\ InFlightBatches = {}
    /\ AllSettled \/ stopRequested \/ Fatal
    /\ state \in OutcomesOf
    /\ runState' = state
    /\ UNCHANGED <<connectResult, batchState, attempts, rlRetries, failKind, stopRequested,
                   stopReply, runAlerts, outsideRun>>

\* the steps of the run itself
RunProgress ==
    \/ \E outcome \in {"ok", "connection failed", "no data"} : Connect(outcome)
    \/ \E b \in BatchIds : StartBatch(b)
    \/ \E b \in BatchIds : FetchOk(b)
    \/ \E b \in BatchIds : FetchFailNetwork(b)
    \/ \E b \in BatchIds : FetchFailRateLimited(b)
    \/ \E b \in BatchIds : FetchFailUnknown(b)
    \/ \E b \in BatchIds : WriteCommit(b)
    \/ \E b \in BatchIds : WriteFail(b)
    \/ \E state \in {"Succeeded", "Failed", "PartiallyFailed"} : FinishRun(state)

NextRun ==
    \/ RunProgress
    \/ StopRequest

(***************************************************************************)
(* Two runs of the database agent racing on the catalog tables: every      *)
(* statement is atomic at the database, the statements of the two runs     *)
(* interleave                                                              *)
(***************************************************************************)

RaceRuns == {"runA", "runB"}

\* rows a run that has begun still appends to price_history
PendingHistory(r) == IF rcPc[r] = "idle" THEN 0 ELSE Len(rcValidated[r])

InitRace ==
    /\ rcPc = [r \in RaceRuns |-> "idle"]
    /\ rcValidated = [r \in RaceRuns |-> <<>>]
    /\ rcErrors = [r \in RaceRuns |-> <<>>]

\* a run receives the validated products of a scrape
RaceBegin(r, batch) ==
    /\ rcPc[r] = "idle"
    /\ ValidOf(batch) # <<>>
    /\ Len(price_history) + Len(ValidOf(batch))
         + PendingHistory(CHOOSE o \in RaceRuns : o # r) <= MaxHistoryRows
    /\ rcValidated' = [rcValidated EXCEPT ![r] = ValidOf(batch)]
    /\ rcErrors' = [rcErrors EXCEPT ![r] = <<>>]
    /\ rcPc' = [rcPc EXCEPT ![r] = "upsert_products"]
    /\ UNCHANGED <<products, current_prices, price_history, outsideRace>>

\* upsert_products of the run: table("products").upsert(...)
RaceUpsertProducts(r, ok) ==
    /\ rcPc[r] = "upsert_products"
    /\ products' = IF ok THEN UpsertProducts(products, rcValidated[r]) ELSE products
    /\ rcErrors' = IF ok THEN rcErrors
                   ELSE [rcErrors EXCEPT ![r] = Append(@, "products")]
    /\ rcPc' = [rcPc EXCEPT ![r] = "upsert_current"]
    /\ UNCHANGED <<rcValidated, current_prices, price_history, outsideRace>>

\* update_prices of the run, first statement: table("current_prices").upsert(...)
RaceUpsertCurrent(r, ok) ==
    /\ rcPc[r] = "upsert_current"
    /\ current_prices' = IF ok THEN UpsertCurrent(current_prices, rcValidated[r])
                         ELSE current_prices
    /\ rcErrors' = IF ok THEN rcErrors
                   ELSE [rcErrors EXCEPT ![r] = Append(@, "upsert raises")]
    /\ rcPc' = [rcPc EXCEPT ![r] = IF ok THEN "insert_history" ELSE "idle"]
    /\ UNCHANGED <<rcValidated, products, price_history, outsideRace>>

\* update_prices of the run, second statement: table("price_history").insert(...)
RaceInsertHistory(r, ok) ==
    /\ rcPc[r] = "insert_history"
    /\ price_history' = IF ok THEN InsertHistory(price_history, rcValidated[r])
                        ELSE price_history
    /\ rcErrors' = IF ok THEN rcErrors
                   ELSE [rcErrors EXCEPT ![r] = Append(@, "insert raises")]
    /\ rcPc' = [rcPc EXCEPT ![r] = "idle"]
    /\ UNCHANGED <<rcValidated, products, current_prices, outsideRace>>

NextRace ==
    \/ \E r \in RaceRuns, record \in ScrapedRecords : RaceBegin(r, <<record>>)
    \/ \E r \in RaceRuns, ok \in BOOLEAN : RaceUpsertProducts(r, ok)
    \/ \E r \in RaceRuns, ok \in BOOLEAN : RaceUpsertCurrent(r, ok)
    \/ \E r \in RaceRuns, ok \in BOOLEAN : RaceInsertHistory(r, ok)

(***************************************************************************)
(* Schedule Resolver: five-field cron expressions, isDue and nextRun.      *)
(* Instants are minutes since Monday 1 January 00:00 UTC; the model stays  *)
(* within January and February, where Europe/Amsterdam is at UTC+1.        *)
(***************************************************************************)

\* weeks the clock of the model covers
MaxWeeks == 2

MinutesPerHour == 60

HoursPerDay == 24

DaysPerWeek == 7

MinutesPerDay == HoursPerDay * MinutesPerHour

MinutesPerWeek == DaysPerWeek * MinutesPerDay

\* no instant
NoInstant == -1

Digits == {"0", "1", "2", "3", "4", "5", "6", "7", "8", "9"}

DigitValue(c) ==
    CASE c = "0" -> 0 [] c = "1" -> 1 [] c = "2" -> 2 [] c = "3" -> 3 [] c = "4" -> 4
      [] c = "5" -> 5 [] c = "6" -> 6 [] c = "7" -> 7 [] c = "8" -> 8 [] c = "9" -> 9

\* the number a string of digits stands for
RECURSIVE NumeralValue(_)
NumeralValue(chars) ==
    IF chars = <<>> THEN 0
    ELSE 10 * NumeralValue(SubSeq(chars, 1, Len(chars) - 1)) + DigitValue(chars[Len(chars)])

IsNumeral(chars) == Len(chars) >= 1 /\ \A i \in DOMAIN chars : chars[i] \in Digits

InvalidField == [valid |-> FALSE, any |-> FALSE, value |-> 0]

\* one field of a cron expression: "*" or a number of the field's range
ParseField(chars, lo, hi) ==
    IF chars = <<"*">> THEN [valid |-> TRUE, any |-> TRUE, value |-> 0]
    ELSE IF IsNumeral(chars) /\ NumeralValue(chars) \in lo..hi
         THEN [valid |-> TRUE, any |-> FALSE, value |-> NumeralValue(chars)]
    ELSE InvalidField

\* the five fields of an expression: minute, hour, day of month, month, day of week
ParseCron(expression) ==
    IF Len(expression) # 5 THEN <<InvalidField>>
    ELSE <<ParseField(expression[1], 0, 59), ParseField(expression[2], 0, 23),
           ParseField(expression[3], 1, 31), ParseField(expression[4], 1, 12),
           ParseField(expression[5], 0, 7)>>

ValidCron(expression) ==
    \A i \in DOMAIN ParseCron(expression) : ParseCron(expression)[i].valid

\* the expressions a configuration can submit, as their whitespace-separated
\* fields: "0 23 * * 1", "30 6 * * *", "0 * * * *", "0 23 * * 7", "0 25 * * 1",
\* "0 23 * *"
CronExpressions ==
    { << <<"0">>, <<"2", "3">>, <<"*">>, <<"*">>, <<"1">> >>,
      << <<"3", "0">>, <<"6">>, <<"*">>, <<"*">>, <<"*">> >>,
      << <<"0">>, <<"*">>, <<"*">>, <<"*">>, <<"*">> >>,
      << <<"0">>, <<"2", "3">>, <<"*">>, <<"*">>, <<"7">> >>,
      << <<"0">>, <<"2", "5">>, <<"*">>, <<"*">>, <<"1">> >>,
      << <<"0">>, <<"2", "3">>, <<"*">>, <<"*">> >> }

Timezones == {"Europe/Amsterdam", "UTC"}

\* offset of a timezone from UTC in minutes (January and February)
UtcOffset(timezone) == IF timezone = "Europe/Amsterdam" THEN MinutesPerHour ELSE 0

Local(instant, timezone) == instant + UtcOffset(timezone)

ToUtc(local, timezone) == local - UtcOffset(timezone)

DayOf(local) == local \div MinutesPerDay

HourOf(local) == (local % MinutesPerDay) \div MinutesPerHour

MinuteOf(local) == local % MinutesPerHour

\* day of the week of a day, 0 = Sunday; day 0 is a Monday
DowOf(day) == (day + 1) % DaysPerWeek

\* day of the month and month of a day; day 0 is 1 January
DomOf(day) == IF day < 31 THEN day + 1 ELSE day - 30

MonthOf(day) == IF day < 31 THEN 1 ELSE 2

FieldMatches(field, value) == field.any \/ field.value = value

\* the day fields: when both day of month and day of week are restricted,
\* either may match
DayMatches(fields, day) ==
    /\ FieldMatches(fields[4], MonthOf(day))
    /\ IF ~fields[3].any /\ ~fields[5].any
       THEN \/ FieldMatches(fields[3], DomOf(day))
            \/ fields[5].value % DaysPerWeek = DowOf(day)
       ELSE /\ FieldMatches(fields[3], DomOf(day))
            /\ fields[5].any \/ fields[5].value % DaysPerWeek = DowOf(day)

\* isDue(schedule, now): the local time of now matches every field
isDue(sched, now) ==
    LET fields == ParseCron(sched.cron_expression)
        local == Local(now, sched.timezone)
    IN /\ FieldMatches(fields[1], MinuteOf(local))
       /\ FieldMatches(fields[2], HourOf(local))
       /\ DayMatches(fields, DayOf(local))

SetMin(S) == CHOOSE x \in S : \A y \in S : x <= y

\* mutant: the search starts at now itself
SearchStart_AtNow(now, timezone) == Local(now, timezone)

\* the first local minute nextRun looks at
SearchStart(now, timezone) == Local(now, timezone) + 1

\* the minutes of a day, from a local minute on, at which the time fields match
TimesOn(fields, day, from) ==
    {t \in {h * MinutesPerHour + m :
               h \in {x \in 0..(HoursPerDay - 1) : FieldMatches(fields[2], x)},
               m \in {x \in 0..(MinutesPerHour - 1) : FieldMatches(fields[1], x)}} :
        day * MinutesPerDay + t >= from}

\* nextRun(schedule, now): the first matching instant after now, looked for
\* over the coming week
nextRun(sched, now) ==
    LET fields == ParseCron(sched.cron_expression)
        from == SearchStart(now, sched.timezone)
        days == {d \in DayOf(from)..(DayOf(from) + DaysPerWeek) :
                    DayMatches(fields, d) /\ TimesOn(fields, d, from) # {}}
    IN IF days = {} THEN NoInstant
       ELSE ToUtc(SetMin(days) * MinutesPerDay + SetMin(TimesOn(fields, SetMin(days), from)),
                  sched.timezone)

\* the instants of a week the clock visits, as minutes after Monday 00:00 UTC:
\* around Monday 22:00 and 23:00, Tuesday 05:30 and 05:00, Sunday 22:00 and 23:00
WeekOffsets ==
    {0, 1319, 1320, 1321, 1379, 1380, 1381, 1740, 1770, 9960, 9961, 10020}

Instants == {w * MinutesPerWeek + o : w \in 0..(MaxWeeks - 1), o \in WeekOffsets}

NoSchedule == [cron_expression |-> <<>>, timezone |-> "UTC", is_active |-> FALSE]

InitSchedule ==
    /\ clock = 0
    /\ schedule = NoSchedule
    /\ scheduleError = "none"
    /\ due = FALSE
    /\ next_run_at = NoInstant
    /\ last_run_at = NoInstant

\* PUT schedule(provider, scheduleExpression, timezone, active): validates and stores
PutSchedule(expression, timezone) ==
    /\ IF ValidCron(expression)
       THEN /\ schedule' = [cron_expression |-> expression, timezone |-> timezone,
                            is_active |-> TRUE]
            /\ scheduleError' = "none"
            /\ due' = FALSE
            /\ next_run_at' = nextRun(schedule', clock)
            /\ last_run_at' = NoInstant
       ELSE /\ scheduleError' = "InvalidScheduleExpression"
            /\ UNCHANGED <<schedule, due, next_run_at, last_run_at>>
    /\ UNCHANGED <<clock, outsideSchedule>>

\* time passes up to a later instant
Tick(instant) ==
    /\ instant > clock
    /\ clock' = instant
    /\ due' = FALSE
    /\ UNCHANGED <<schedule, scheduleError, next_run_at, last_run_at, outsideSchedule>>

\* the scheduling tick: the due-check of the provider at the instant now
DueCheck ==
    /\ schedule.is_active
    /\ due' = isDue(schedule, clock)
    /\ IF isDue(schedule, clock)
       THEN /\ last_run_at' = clock
            /\ next_run_at' = nextRun(schedule, clock)
       ELSE UNCHANGED <<last_run_at, next_run_at>>
    /\ UNCHANGED <<clock, schedule, scheduleError, outsideSchedule>>

NextSchedule ==
    \/ \E expression \in CronExpressions, timezone \in Timezones :
          PutSchedule(expression, timezone)
    \/ \E instant \in Instants : Tick(instant)
    \/ DueCheck

(***************************************************************************)
(* use-toast.ts: the global toast list, its auto-dismiss timers and the    *)
(* useToast consumers.  The id `toast-n` is kept as n; times are in ms.     *)
(***************************************************************************)

\* cap on the number of addToast calls
MaxToasts == 2

\* options.duration || 5000
DefaultDuration == 5000

\* a duration callers pass that is shorter than the default
ShortDuration == 2000

\* the components that call useToast
Consumers == {"c1", "c2"}

\* the ToastOptions a caller passes: without a duration, with 0, with 2000
ToastOptionSets ==
    {[variant |-> "default"],
     [variant |-> "default", duration |-> 0],
     [variant |-> "destructive", duration |-> ShortDuration]}

\* mutant: a duration of 0 is taken as given (?? in place of ||)
EffectiveDuration_ZeroKept(options) ==
    IF "duration" \in DOMAIN options THEN options.duration ELSE DefaultDuration

\* const duration = options.duration || 5000
EffectiveDuration(options) ==
    IF "duration" \in DOMAIN options /\ options.duration # 0
    THEN options.duration ELSE DefaultDuration

\* toasts.filter(toast => toast.id !== id)
WithoutToast(list, id) == SelectSeq(list, LAMBDA toast : toast.id # id)

\* mutant: the cleanup of the effect leaves the listener in the set
AfterCleanup_Kept(c) == listeners

\* listeners.delete(setToastState)
AfterCleanup(c) == listeners \ {c}

InitToast ==
    /\ toastCounter = 0
    /\ toasts = <<>>
    /\ listeners = {}
    /\ timers = {}
    /\ consumerPc = [c \in Consumers |-> "unmounted"]
    /\ toastState = [c \in Consumers |-> <<>>]

\* listeners.forEach(listener => listener(toasts)) with the new list
NotifyListeners(list) ==
    /\ toastState' = [c \in Consumers |-> IF c \in listeners THEN list ELSE toastState[c]]
    /\ consumerPc' = [c \in Consumers |->
          IF c \in listeners /\ consumerPc[c] = "subscribed" THEN "synced"
          ELSE consumerPc[c]]

\* addToast(options)
addToast(options) ==
    /\ toastCounter < MaxToasts
    /\ toastCounter' = toastCounter + 1
    /\ toasts' = Append(toasts, [id |-> toastCounter + 1, options |-> options])
    /\ NotifyListeners(toasts')
    /\ timers' = timers \cup {[id |-> toastCounter + 1,
                               delay |-> EffectiveDuration(options),
                               remaining |-> EffectiveDuration(options)]}
    /\ UNCHANGED <<listeners, outsideToast>>

\* removeToast(id) called by a consumer
removeToast(id) ==
    /\ id \in 1..toastCounter
    /\ toasts' = WithoutToast(toasts, id)
    /\ NotifyListeners(toasts')
    /\ UNCHANGED <<toastCounter, listeners, timers, outsideToast>>

\* the time until the next pending timer is due
NextDue ==
    CHOOSE d \in {t.remaining : t \in timers} :
        d > 0 /\ \A t \in timers : t.remaining > 0 => d <= t.remaining

\* time passes until the next pending timer is due
TimePasses ==
    /\ \E t \in timers : t.remaining > 0
    /\ timers' = {[t EXCEPT !.remaining = IF t.remaining > NextDue
                                          THEN t.remaining - NextDue ELSE 0] : t \in timers}
    /\ UNCHANGED <<toastCounter, toasts, listeners, consumerPc, toastState, outsideToast>>

\* the setTimeout callback of addToast: removeToast(id)
TimerFires(t) ==
    /\ t \in timers
    /\ t.remaining = 0
    /\ timers' = timers \ {t}
    /\ toasts' = WithoutToast(toasts, t.id)
    /\ NotifyListeners(toasts')
    /\ UNCHANGED <<toastCounter, listeners, outsideToast>>

\* a component that calls useToast renders: useState<Toast[]>([])
MountConsumer(c) ==
    /\ consumerPc[c] = "unmounted"
    /\ consumerPc' = [consumerPc EXCEPT ![c] = "rendered"]
    /\ toastState' = [toastState EXCEPT ![c] = <<>>]
    /\ UNCHANGED <<toastCounter, toasts, listeners, timers, outsideToast>>

\* the effect of useToast: listeners.add(setToastState)
Subscribe(c) ==
    /\ consumerPc[c] = "rendered"
    /\ consumerPc' = [consumerPc EXCEPT ![c] = "subscribed"]
    /\ listeners' = listeners \cup {c}
    /\ UNCHANGED <<toastCounter, toasts, timers, toastState, outsideToast>>

\* the component unmounts: the cleanup of the effect runs and the state of
\* the component is gone
UnmountConsumer(c) ==
    /\ consumerPc[c] \in {"subscribed", "synced"}
    /\ consumerPc' = [consumerPc EXCEPT ![c] = "unmounted"]
    /\ listeners' = AfterCleanup(c)
    /\ toastState' = [toastState EXCEPT ![c] = <<>>]
    /\ UNCHANGED <<toastCounter, toasts, timers, outsideToast>>

\* the event loop at work: time passes or a due callback runs
TimerProgress == TimePasses \/ \E t \in timers : TimerFires(t)

NextToast ==
    \/ \E options \in ToastOptionSets : addToast(options)
    \/ \E id \in 1..MaxToasts : removeToast(id)
    \/ TimePasses
    \/ \E t \in timers : TimerFires(t)
    \/ \E c \in Consumers : MountConsumer(c)
    \/ \E c \in Consumers : Subscribe(c)
    \/ \E c \in Consumers : UnmountConsumer(c)

(***************************************************************************)
(* DashboardOverview: fetchDashboardData and its 30 second interval        *)
(***************************************************************************)

\* the calls of fetchDashboardData that can be under way at once: the call
\* of the effect and a call of the interval
RefreshCalls == {"mount", "interval"}

\* the data a fetch resolves to
DashboardData == {"v1", "v2"}

\* a fetch resolves to data or rejects
FetchResults == DashboardData \cup {"rejected"}

\* the state before the first fetch
InitialData == "initial"

NoRefresh == [metrics |-> "none", stores |-> "none", chartData |-> "none"]

InitDashboard ==
    /\ metrics = InitialData
    /\ stores = InitialData
    /\ chartData = InitialData
    /\ dashLoading = TRUE
    /\ refreshing = {}
    /\ lastRefresh = NoRefresh

\* Promise.all([...]) rejects when one of the three fetches rejects
AllResolved(m, s, c) == m # "rejected" /\ s # "rejected" /\ c # "rejected"

\* fetchDashboardData up to its await: setLoading(true) and the three fetches
StartRefresh(r) ==
    /\ r \notin refreshing
    /\ refreshing' = refreshing \cup {r}
    /\ dashLoading' = TRUE
    /\ UNCHANGED <<metrics, stores, chartData, lastRefresh, outsideDashboard>>

\* fetchDashboardData after its await: the three setters or the catch, then
\* setLoading(false) in finally
FinishRefresh(r, m, s, c) ==
    /\ r \in refreshing
    /\ refreshing' = refreshing \ {r}
    /\ metrics' = IF AllResolved(m, s, c) THEN m ELSE metrics
    /\ stores' = IF AllResolved(m, s, c) THEN s ELSE stores
    /\ chartData' = IF AllResolved(m, s, c) THEN c ELSE chartData
    /\ dashLoading' = FALSE
    /\ lastRefresh' = [metrics |-> m, stores |-> s, chartData |-> c]
    /\ UNCHANGED outsideDashboard

NextDashboard ==
    \/ \E r \in RefreshCalls : StartRefresh(r)
    \/ \E r \in RefreshCalls, m \in FetchResults, s \in FetchResults, c \in FetchResults :
          FinishRefresh(r, m, s, c)

(***************************************************************************)
(* StoreSchedulesPage: the create dialog, handleCreateSchedule, fetchData  *)
(***************************************************************************)

\* cap on the POST requests of the model
MaxPosts == 2

\* the initial value of the form, also what a successful create sets
DefaultNewSchedule ==
    [store_id |-> "", schedule_type |-> "weekly_price_update", cron_expression |-> "",
     timezone |-> "Europe/Amsterdam"]

\* what the user can put into the fields of the form
FormValues ==
    [store_id |-> {"", "store-a"}, schedule_type |-> {"weekly_price_update", "daily_price_check"},
     cron_expression |-> {"", "0 23 * * 1"}, timezone |-> {"Europe/Amsterdam", "UTC"}]

FormFields == DOMAIN FormValues

\* configData.data.default_timezone
ConfigTimezones == {"Europe/Amsterdam", "UTC"}

\* the POST resolves to an OK response, to a response that is not OK (its body
\* JSON or not), or the fetch rejects
PostOutcomes == {"ok", "not_ok", "not_ok_no_json", "throws"}

\* mutant: only the store is required
RequiredMissing_StoreOnly(form) == form.store_id = ""

\* !newSchedule.store_id || !newSchedule.cron_expression
RequiredMissing(form) == form.store_id = "" \/ form.cron_expression = ""

InitCreate ==
    /\ newSchedule = DefaultNewSchedule
    /\ isCreating = FALSE
    /\ createPc = "idle"
    /\ postsSent = 0
    /\ fetchPending = 1
    /\ createEvent = "mount"

\* the Add Schedule buttons: setIsCreating(true)
OpenCreate ==
    /\ ~isCreating
    /\ isCreating' = TRUE
    /\ createEvent' = "open"
    /\ UNCHANGED <<newSchedule, createPc, postsSent, fetchPending, outsideCreate>>

\* the Cancel button: setIsCreating(false)
CancelCreate ==
    /\ isCreating
    /\ isCreating' = FALSE
    /\ createEvent' = "cancel"
    /\ UNCHANGED <<newSchedule, createPc, postsSent, fetchPending, outsideCreate>>

\* onChange of a field of the form
EditField(field, value) ==
    /\ isCreating
    /\ value \in FormValues[field]
    /\ newSchedule[field] # value
    /\ newSchedule' = [newSchedule EXCEPT ![field] = value]
    /\ createEvent' = "edit"
    /\ UNCHANGED <<isCreating, createPc, postsSent, fetchPending, outsideCreate>>

\* handleCreateSchedule up to the await: the required fields are checked and
\* the POST is sent, or the handler returns after the error toast
SubmitCreate ==
    /\ isCreating
    /\ createPc = "idle"
    /\ postsSent < MaxPosts
    /\ IF RequiredMissing(newSchedule)
       THEN /\ createEvent' = "rejected"
            /\ UNCHANGED <<createPc, postsSent>>
       ELSE /\ createEvent' = "sent"
            /\ createPc' = "awaiting"
            /\ postsSent' = postsSent + 1
    /\ UNCHANGED <<newSchedule, isCreating, fetchPending, outsideCreate>>

\* handleCreateSchedule after the await
PostSettles(outcome) ==
    /\ createPc = "awaiting"
    /\ createPc' = "idle"
    /\ createEvent' = outcome
    /\ IF outcome = "ok"
       THEN /\ isCreating' = FALSE
            /\ newSchedule' = DefaultNewSchedule
            /\ fetchPending' = fetchPending + 1
       ELSE UNCHANGED <<isCreating, newSchedule, fetchPending>>
    /\ UNCHANGED <<postsSent, outsideCreate>>

\* fetchData finishes: with an OK config response the timezone of the form
\* becomes the configured default
fetchData(configOk, timezone) ==
    /\ fetchPending > 0
    /\ fetchPending' = fetchPending - 1
    /\ newSchedule' = IF configOk THEN [newSchedule EXCEPT !.timezone = timezone]
                      ELSE newSchedule
    /\ createEvent' = "fetchData"
    /\ UNCHANGED <<isCreating, createPc, postsSent, outsideCreate>>

NextCreate ==
    \/ OpenCreate
    \/ CancelCreate
    \/ \E field \in FormFields : \E value \in FormValues[field] : EditField(field, value)
    \/ SubmitCreate
    \/ \E outcome \in PostOutcomes : PostSettles(outcome)
    \/ \E configOk \in BOOLEAN, timezone \in ConfigTimezones : fetchData(configOk, timezone)

(***************************************************************************)
(* normalize_product_name.  A name is a sequence of characters.            *)
(***************************************************************************)

\* cap on the pieces a name of the model is put together from
MaxPieces == 3

\* the pieces names are put together from: store names in both cases with
\* whitespace after them, a product word, and a blank
NamePieces ==
    { <<"a", "h", " ">>, <<"A", "H", " ", "\t">>, <<"j", "u", "m", "b", "o", " ">>,
      <<"D", "i", "r", "k", " ">>, <<"m", "e", "l", "k">>, <<" ">> }

RECURSIVE NamesOf(_)
NamesOf(n) ==
    IF n = 0 THEN {<<>>}
    ELSE NamesOf(n - 1) \cup {s \o p : s \in NamesOf(n - 1), p \in NamePieces}

RawNames == NamesOf(MaxPieces)

\* str.isspace() of the characters of the model
IsSpace(ch) == ch \in {" ", "\t"}

\* str.lower() of one character
LowerChar(ch) ==
    CASE ch = "A" -> "a"
      [] ch = "H" -> "h"
      [] ch = "D" -> "d"
      [] OTHER -> ch

\* str.lower()
Lower(s) == [i \in 1..Len(s) |-> LowerChar(s[i])]

\* the number of characters at the start of s that are, or are not, whitespace
RECURSIVE RunLength(_, _)
RunLength(s, space) ==
    IF s = <<>> \/ IsSpace(Head(s)) # space THEN 0
    ELSE 1 + RunLength(Tail(s), space)

\* name.split(): the words between runs of whitespace
RECURSIVE Split(_)
Split(s) ==
    IF s = <<>> THEN <<>>
    ELSE IF IsSpace(Head(s)) THEN Split(SubSeq(s, RunLength(s, TRUE) + 1, Len(s)))
    ELSE <<SubSeq(s, 1, RunLength(s, FALSE))>>
           \o Split(SubSeq(s, RunLength(s, FALSE) + 1, Len(s)))

\* ' '.join(words)
RECURSIVE Join(_)
Join(words) ==
    IF words = <<>> THEN <<>>
    ELSE IF Len(words) = 1 THEN words[1]
    ELSE words[1] \o <<" ">> \o Join(Tail(words))

\* the alternatives of the pattern ^(ah|jumbo|dirk)\s+
StorePrefixes == { <<"a", "h">>, <<"j", "u", "m", "b", "o">>, <<"d", "i", "r", "k">> }

\* the pattern matches with this alternative: the prefix and whitespace after it
PrefixMatches(s, prefix) ==
    /\ Len(s) > Len(prefix)
    /\ SubSeq(s, 1, Len(prefix)) = prefix
    /\ IsSpace(s[Len(prefix) + 1])

\* re.sub(r'^(ah|jumbo|dirk)\s+', '', s): the one match at the start is removed
StripPrefix(s) ==
    IF \E prefix \in StorePrefixes : PrefixMatches(s, prefix)
    THEN LET prefix == CHOOSE p \in StorePrefixes : PrefixMatches(s, p)
             rest == SubSeq(s, Len(prefix) + 1, Len(s))
         IN SubSeq(rest, RunLength(rest, TRUE) + 1, Len(rest))
    ELSE s

normalize_product_name(name) == StripPrefix(Lower(Join(Split(name))))

InitNormalize ==
    /\ rawName = <<>>
    /\ normalized = <<>>

\* normalize_product_name is called with the name of a scraped product
NormalizeName(name) ==
    /\ rawName' = name
    /\ normalized' = normalize_product_name(name)
    /\ UNCHANGED outsideNormalize

\* the normalized name is normalized again
NormalizeAgain ==
    /\ rawName' = normalized
    /\ normalized' = normalize_product_name(normalized)
    /\ UNCHANGED outsideNormalize

NextNormalize ==
    \/ \E name \in RawNames : NormalizeName(name)
    \/ NormalizeAgain

Init ==
    /\ InitOrch /\ InitMonitor /\ InitRetry /\ InitDb /\ InitOutlier
    /\ InitDedup
    /\ InitRecovery
    /\ InitRun
    /\ InitRace
    /\ InitSchedule
    /\ InitToast
    /\ InitDashboard
    /\ InitCreate
    /\ InitNormalize

SpecOrch == Init /\ [][NextOrch]_vars

\* the orchestrator when running Jobs terminate and every Queued Job that
\* finds a free slot again and again is given one
SpecOrchFair ==
    /\ SpecOrch
    /\ \A j \in 1..MaxJobs : WF_vars(JobTerminates(j))
    /\ \A j \in 1..MaxJobs : SF_vars(AcquireSlot(j))

SpecMonitor == Init /\ [][NextMonitor]_vars

SpecRetry == Init /\ [][NextRetry]_vars

SpecDb == Init /\ [][NextDb]_vars

SpecOutlier == Init /\ [][NextOutlier]_vars

SpecDedup == Init /\ [][NextDedup]_vars

SpecRecovery == Init /\ [][NextRecovery]_vars

SpecRun == Init /\ [][NextRun]_vars

\* the run under fair scheduling of its steps
SpecRunFair == SpecRun /\ WF_vars(RunProgress)

SpecRace == Init /\ [][NextRace]_vars

SpecSchedule == Init /\ [][NextSchedule]_vars

SpecToast == Init /\ [][NextToast]_vars

\* the toasts when the event loop runs the timers
SpecToastFair == SpecToast /\ WF_vars(TimerProgress)

SpecDashboard == Init /\ [][NextDashboard]_vars

SpecCreate == Init /\ [][NextCreate]_vars

SpecNormalize == Init /\ [][NextNormalize]_vars

(***************************************************************************)
(* Properties of the job orchestrator                                      *)
(***************************************************************************)

\* C1: for every provider at most one Job is Queued or Running, in every
\* reachable state, whatever the interleaving of start() calls and due-checks.
C1_MutualExclusion ==
    \A p \in Providers : Cardinality(NonTerminalJobs(p)) <= 1

\* C1 witness: a Job of a provider is non-terminal after one admin created it,
\* the other admin was turned away and the scheduler skipped the provider.
C1_Witness ==
    /\ \E p \in Providers : NonTerminalJobs(p) # {}
    /\ reply["admin1"] = "jobId"
    /\ reply["admin2"] = "JobAlreadyRunning"
    /\ reply["scheduler"] = "skipped"

\* C2: a manual start that finds a non-terminal Job of its provider answers
\* JobAlreadyRunning, and a call answered JobAlreadyRunning leaves the Jobs as
\* they were.
C2_RejectedStart ==
    [][\A c \in Callers \ {"scheduler"} :
          /\ (callerPc[c] = "check" /\ callerPc'[c] # "check"
                /\ NonTerminalJobs(callerReq[c].provider) # {})
             => (reply'[c] = "JobAlreadyRunning" /\ orchJobs' = orchJobs)
          /\ (reply'[c] = "JobAlreadyRunning" /\ reply[c] # "JobAlreadyRunning")
             => orchJobs' = orchJobs]_vars

\* C2 witness: a manual start was answered JobAlreadyRunning while the
\* provider's Job is Running and is the only Job.
C2_Witness ==
    /\ reply["admin2"] = "JobAlreadyRunning"
    /\ Len(orchJobs) = 1
    /\ orchJobs[1].state = "Running"

\* C5: the number of Running Jobs never exceeds the pool size, and a Queued Job
\* that finds no free slot is still Queued after the step.
C5_PoolBound ==
    /\ [](Cardinality(RunningJobs) <= PoolSize)
    /\ [][\A j \in JobIds :
             (orchJobs[j].state = "Queued" /\ Cardinality(RunningJobs) >= PoolSize)
             => orchJobs'[j].state = "Queued"]_vars

\* C5 witness: the pool is full with a Running Job and another provider's Job
\* waits in Queued.
C5_Witness ==
    /\ Cardinality(RunningJobs) = PoolSize
    /\ \E j \in JobIds : orchJobs[j].state = "Queued"

(***************************************************************************)
(* Properties of the job states shown and changed by JobMonitor            *)
(***************************************************************************)

\* position of a status on Idle -> Queued -> Running -> terminal (paused is a
\* Running job that is held)
Rank(status) ==
    CASE status = "pending" -> 1
      [] status = "running" -> 2
      [] status = "paused" -> 2
      [] OTHER -> 3

TerminalStatuses == {"completed", "failed"}

\* C3: no job action moves a Job backward on Idle -> Queued -> Running ->
\* terminal: after pause, resume, stop or retry every Job's state is at least
\* as far along as before.
C3_ForwardOnly ==
    [][lastOp' \in {"pause", "resume", "stop", "retry"}
         => \A i \in 1..Len(jobs) : Rank(jobs'[i].status) >= Rank(jobs[i].status)]_vars

\* C4: a Job in a terminal state keeps its state and its counters under every
\* job action.
C4_TerminalImmutable ==
    [][lastOp' \in {"pause", "resume", "stop", "retry"}
         => \A i \in 1..Len(jobs) :
               jobs[i].status \in TerminalStatuses => jobs'[i] = jobs[i]]_vars

(***************************************************************************)
(* Properties of retry_with_backoff                                        *)
(***************************************************************************)

\* calls of func that followed a failure of one of the given kinds
RetriesAfter(kinds) ==
    Cardinality({i \in 1..Len(outcomes) : i < Len(outcomes) /\ outcomes[i] \in kinds})

\* C6: func is never called more than max_retries times in one run of
\* retry_with_backoff, so no batch is retried more than max_retries times, in
\* particular not after a network or a storage failure.
C6_RetryBounded ==
    /\ Len(outcomes) <= max_retries
    /\ RetriesAfter({"NetworkError", "StorageError"}) <= max_retries

\* C6 witness: with the default of three attempts the last allowed call failed
\* with a network error after two rate-limit sleeps.
C6_Witness ==
    /\ max_retries = DefaultMaxRetries
    /\ rPc = "raised"
    /\ outcomes = <<"RateLimitError", "RateLimitError", "NetworkError">>

(***************************************************************************)
(* Properties of the catalog writes                                        *)
(***************************************************************************)

\* C7: committing a batch again leaves one latest-observation row per
\* (entity, provider) and one history row per (entity, provider, capture
\* timestamp): no two rows of current_prices share a store_product_id and no
\* two rows of price_history share a store_product_id and scraped_at.
C7_IdempotentWrites ==
    /\ \A i, j \in DOMAIN current_prices :
          current_prices[i].store_product_id = current_prices[j].store_product_id => i = j
    /\ \A i, j \in DOMAIN price_history :
          (/\ price_history[i].store_product_id = price_history[j].store_product_id
           /\ price_history[i].scraped_at = price_history[j].scraped_at) => i = j

\* the key the catalog is meant to hold one row for
CanonicalKey(row) ==
    IF row.barcode # NoBarcode THEN <<"barcode", row.barcode>>
    ELSE <<"name", row.normalized_name, row.brand>>

\* C8: no two rows of products have the same canonical key (the barcode when
\* there is one, otherwise normalized name and brand).
C8_OneRowPerKey ==
    \A i, j \in DOMAIN products :
        CanonicalKey(products[i]) = CanonicalKey(products[j]) => i = j

OutOfRange ==
    /\ historical_prices # <<>>
    /\ (observed < SeqMin(historical_prices) \/ observed > SeqMax(historical_prices))

\* C10 as stated: an observation is flagged exactly when at least 10 history
\* points exist and its value is out of range.
C10_AtLeastTenPoints ==
    oPc = "detected" =>
        ((outliers # <<>>) <=> (Len(historical_prices) >= 10 /\ OutOfRange))

\* C10 as amended: an observation is flagged exactly when more than 10 history
\* points exist and its value is out of range; with 10 points or fewer nothing
\* is flagged, whatever the value.
C10_MoreThanTenPoints ==
    oPc = "detected" =>
        ((outliers # <<>>) <=> (Len(historical_prices) >= 11 /\ OutOfRange))

\* C10 witness: with 11 history points an out-of-range observation was flagged.
C10_Witness ==
    /\ oPc = "detected"
    /\ Len(historical_prices) = 11
    /\ observed = 40
    /\ outliers # <<>>

(***************************************************************************)
(* Properties of duplicate detection                                       *)
(***************************************************************************)

\* the pairs of product ids detect_duplicates reported, without their order
ReportedPairs == {{duplicates[k].product1_id, duplicates[k].product2_id} : k \in DOMAIN duplicates}

\* the pairs of products of the pass that score above the threshold
SimilarPairs ==
    {{processed_products[i].id, processed_products[j].id} : <<i, j>> \in
        {p \in (DOMAIN processed_products) \X (DOMAIN processed_products) :
            /\ p[1] # p[2]
            /\ IsDuplicate(calculate_similarity(processed_products[p[1]],
                                                processed_products[p[2]]))}}

InFlight(job) == job.status = "running" /\ job.progress > 0 /\ job.progress < 100

\* C13: a stop does not put a Job into its terminal failed state while the
\* Job has work in flight; the Job becomes failed only from a checkpoint.
C13_CooperativeStop ==
    [][lastOp' = "stop"
         => \A i \in 1..Len(jobs) :
               (jobs[i].status # "failed" /\ jobs'[i].status = "failed")
               => ~InFlight(jobs[i])]_vars

\* C14: the writes of a batch apply together or not at all: a processing run
\* that ends with a database error has left current_prices and price_history
\* as they were, and a run without an error has written both.
C14_AtomicBatch ==
    [][(dbPc = "update_prices" /\ dbPc' = "idle")
         => /\ database_errors' # <<>>
                => (current_prices' = current_prices /\ price_history' = price_history)
            /\ database_errors' = <<>>
                => (/\ current_prices' = UpsertCurrent(current_prices, validated_products)
                    /\ price_history' = InsertHistory(price_history, validated_products))]_vars

\* C16: a call is given up because of a network failure only when max_retries
\* attempts in a row failed with it.
C16_NetworkExhaustion ==
    (rPc = "raised" /\ rResult = "NetworkError")
    => (/\ Len(outcomes) = max_retries
        /\ \A i \in DOMAIN outcomes : outcomes[i] = "NetworkError")

(***************************************************************************)
(* Properties of error recovery                                            *)
(***************************************************************************)

\* C15: for an error classified as unknown no recovery strategy is run: the
\* recovery result is the failure "No recovery strategy available", and once
\* the admin is notified the Job is Failed and an Alert of high severity for
\* the unknown kind is raised.
C15_UnknownNotRetried ==
    (error_type = "unknown" /\ erPc \in {"notify_admin", "done"})
    => /\ strategyRuns = 0
       /\ recovery_result = [success |-> FALSE, message |-> "No recovery strategy available"]
       /\ erPc = "done"
            => (erJob = "Failed" /\ [severity |-> "high", kind |-> "unknown"] \in erAlerts)

\* C15 witness: the error "Max retries exceeded", which holds none of the
\* keywords, went through the agent and ended the Job.
C15_Witness ==
    /\ erPc = "done"
    /\ error = {}
    /\ error_type = "unknown"
    /\ erJob = "Failed"

(***************************************************************************)
(* Properties of a run                                                     *)
(***************************************************************************)

RunTerminal == runState \in {"Succeeded", "Failed", "PartiallyFailed"}

SomeExhaustedOthersSucceeded ==
    /\ \E b \in BatchIds : batchState[b] = "failed" /\ attempts[b] >= MaxAttempts
    /\ \E b \in BatchIds : batchState[b] = "committed"

NoDataOrNoConnection == connectResult \in {"connection failed", "no data"}

SomeExhaustedOnAdapter ==
    \E b \in BatchIds : failKind[b] \in {"Transient-Network", "RateLimited"}

C19_RacingRunsConverge ==
    (\A r \in RaceRuns : rcPc[r] = "idle")
    => /\ \A i, j \in DOMAIN products :
             ProductConflict(products[i], products[j]) => i = j
       /\ \A i, j \in DOMAIN current_prices :
             current_prices[i].store_product_id = current_prices[j].store_product_id
             => i = j
       /\ \A i, j \in DOMAIN price_history : price_history[i] = price_history[j] => i = j

(***************************************************************************)
(* Properties of the Schedule Resolver                                     *)
(***************************************************************************)

\* "0 23 * * 1"
WeeklyMonday23 == << <<"0">>, <<"2", "3">>, <<"*">>, <<"*">>, <<"1">> >>

\* Monday 23:00 local time of the schedule's timezone, in some week
IsMonday23Local(instant, timezone) ==
    /\ DowOf(DayOf(Local(instant, timezone))) = 1
    /\ HourOf(Local(instant, timezone)) = 23
    /\ MinuteOf(Local(instant, timezone)) = 0

\* C20: for the schedule "0 23 * * 1" the due-check at Monday 23:00 local time
\* finds the schedule due and stores the Monday 23:00 one week later as next
\* run; and for every schedule a stored next run is later than now and is an
\* instant at which the schedule is due.
C20_WeeklySchedule ==
    /\ (schedule.is_active /\ schedule.cron_expression = WeeklyMonday23
          /\ IsMonday23Local(clock, schedule.timezone))
       => /\ isDue(schedule, clock)
          /\ nextRun(schedule, clock) = clock + MinutesPerWeek
          /\ last_run_at = clock => (due /\ next_run_at = clock + MinutesPerWeek)
    /\ (schedule.is_active /\ next_run_at # NoInstant /\ last_run_at = clock)
       => (next_run_at > clock /\ isDue(schedule, next_run_at))
    /\ schedule.is_active
       => (nextRun(schedule, clock) > clock /\ isDue(schedule, nextRun(schedule, clock)))

\* C20 witness: store-a's schedule "0 23 * * 1" in Europe/Amsterdam was found
\* due at Monday 23:00 local time (22:00 UTC) of the second week.
C20_Witness ==
    /\ schedule.cron_expression = WeeklyMonday23
    /\ schedule.timezone = "Europe/Amsterdam"
    /\ clock = MinutesPerWeek + 22 * MinutesPerHour
    /\ due
    /\ last_run_at = clock
    /\ next_run_at = 2 * MinutesPerWeek + 22 * MinutesPerHour

(***************************************************************************)
(* Properties of the duplicate threshold                                   *)
(***************************************************************************)

\* the pairs of positions of the pass, the earlier product first
PassPairs ==
    {p \in (DOMAIN processed_products) \X (DOMAIN processed_products) : p[1] < p[2]}

\* the similarity of the products at the two positions of a pair
ScoreOf(p) == calculate_similarity(processed_products[p[1]], processed_products[p[2]])

\* the pair of ids of the products at the two positions of a pair
IdsOf(p) == {processed_products[p[1]].id, processed_products[p[2]].id}

\* C23 as stated: a pair of the pass is a duplicate candidate exactly when
\* its similarity is greater than or equal to 0.85, a pair scoring exactly
\* 0.85 included.
C23_AtLeastThreshold ==
    ddPc = "detected" =>
        \A p \in PassPairs :
            IdsOf(p) \in ReportedPairs <=> ScoreOf(p) >= DuplicateThreshold

\* C23 amended: a pair of the pass is a duplicate candidate exactly when its
\* similarity is strictly greater than 0.85; a pair scoring exactly 0.85 is
\* not a candidate.
C23_AboveThreshold ==
    ddPc = "detected" =>
        \A p \in PassPairs :
            /\ IdsOf(p) \in ReportedPairs <=> ScoreOf(p) > DuplicateThreshold
            /\ ScoreOf(p) = DuplicateThreshold => IdsOf(p) \notin ReportedPairs

\* C23 witness: a finished pass held one pair scoring exactly 0.85, which was
\* not reported, and one pair scoring above it, which was.
C23_Witness ==
    /\ ddPc = "detected"
    /\ \E p \in PassPairs :
          ScoreOf(p) = DuplicateThreshold /\ IdsOf(p) \notin ReportedPairs
    /\ \E p \in PassPairs :
          ScoreOf(p) > DuplicateThreshold /\ IdsOf(p) \in ReportedPairs

(***************************************************************************)
(* Properties of the JobMonitor actions and polls                          *)
(***************************************************************************)

JobActions == {"pause", "resume", "stop", "retry"}

\* the status changes of the four buttons
ButtonTransitions ==
    {<<"running", "paused">>, <<"running", "failed">>, <<"paused", "running">>,
     <<"failed", "pending">>}

\* job `after` is job `before` with the status change of one button applied
ButtonEffect(before, after) ==
    /\ <<before.status, after.status>> \in ButtonTransitions
    /\ after.id = before.id
    /\ IF after.status = "pending"
       THEN after.progress = 0 /\ after.productsProcessed = 0 /\ after.errorCount = 0
       ELSE /\ after.progress = before.progress
            /\ after.productsProcessed = before.productsProcessed
            /\ after.errorCount = before.errorCount

\* C24: a click on a rendered action button changes exactly one job, by
\* running->paused, running->failed, paused->running or failed->pending (the
\* last with progress, productsProcessed and errorCount reset to 0); a job
\* in status completed or pending is never changed, and every other job of
\* the list stays as it was.
C24_ButtonTransitions ==
    [][lastOp' \in JobActions
         => /\ Len(jobs') = Len(jobs)
            /\ \E i \in 1..Len(jobs) :
                  /\ jobs[i].status \notin {"completed", "pending"}
                  /\ ButtonEffect(jobs[i], jobs'[i])
                  /\ \A k \in 1..Len(jobs) : k # i => jobs'[k] = jobs[k]]_vars

\* C24 witness: a retry has reset the first job to pending with zeroed
\* counters while the second job still runs with its counters.
C24_Witness ==
    /\ lastOp = "retry"
    /\ Len(jobs) = 2
    /\ jobs[1].status = "pending" /\ jobs[1].progress = 0 /\ jobs[1].errorCount = 0
    /\ jobs[2].status = "running" /\ jobs[2].progress = 50 /\ jobs[2].errorCount = 1

\* what a poll leaves in jobs and stats, read off its response
PollResult(response) ==
    CASE response.shape = "object" -> <<response.jobs, response.statistics>>
      [] response.shape = "array" -> <<response.jobs, ZeroStats>>
      [] OTHER -> <<<<>>, ZeroStats>>

\* C25: right after a completed poll, jobs and stats are what the response
\* of that poll determines (its jobs and statistics, the array with zeroed
\* statistics, or the empty list with zeroed statistics) and loading is off,
\* whatever job actions ran before the poll.
C25_PollOverwrites ==
    lastOp = "fetchJobData" =>
        /\ <<jobs, stats>> = PollResult(lastResponse)
        /\ ~loading

\* C25 witness: a poll that completed right after a stop delivered the job
\* as running again, so the local status failed is gone.
C25_Witness ==
    /\ lastOp = "fetchJobData"
    /\ prevOp = "stop"
    /\ lastResponse.shape = "object"
    /\ Len(jobs) = 1
    /\ jobs[1].status = "running"
    /\ jobs = lastResponse.jobs

(***************************************************************************)
(* Liveness of the concurrency pool                                        *)
(***************************************************************************)

IsQueued(j) == j \in JobIds /\ orchJobs[j].state = "Queued"

IsRunning(j) == j \in JobIds /\ orchJobs[j].state = "Running"

AttemptsLeft == max_retries - attempt

\* C22: the retry that follows a RateLimitError and its cooldown does not use
\* up one of the call's max_retries attempts: the sleep leaves the number of
\* attempts that are left as it was.
C22_RateLimitNotCounted ==
    [][(rPc = "sleep" /\ rPc' = "loop") => AttemptsLeft' = AttemptsLeft]_vars
(***************************************************************************)
(* Properties of the toasts                                                *)
(***************************************************************************)

Listed(id) == \E k \in DOMAIN toasts : toasts[k].id = id

\* the duration after which the claim has a toast dismissed
StatedDuration(toast) ==
    IF "duration" \in DOMAIN toast.options /\ toast.options.duration > 0
    THEN toast.options.duration ELSE DefaultDuration

\* the toast still waits for its auto-dismiss, set to its stated duration
DismissPending(toast) ==
    \E t \in timers :
        /\ t.id = toast.id
        /\ t.delay = StatedDuration(toast)
        /\ t.remaining <= t.delay

\* C26: the ids of the listed toasts are pairwise distinct, every listed
\* toast has its auto-dismiss pending, set to its duration (5000 ms when the
\* duration is missing or 0), and every toast that is in the list is
\* eventually absent from it, whatever else is added or removed meanwhile.
C26_ToastsDismissed ==
    /\ [](\A i, k \in DOMAIN toasts : i # k => toasts[i].id # toasts[k].id)
    /\ [](\A k \in DOMAIN toasts : DismissPending(toasts[k]))
    /\ \A id \in 1..MaxToasts : Listed(id) ~> ~Listed(id)

\* C26 witness: after two addToast calls the list is empty and one timer is
\* still pending: one toast went with its timer, the other was removed by
\* hand before its duration elapsed.
C26_Witness ==
    /\ toastCounter = 2
    /\ toasts = <<>>
    /\ Cardinality(timers) = 1

Subscribed(c) == consumerPc[c] \in {"subscribed", "synced"}

\* C27: a mounted consumer that was notified since it subscribed exposes the
\* global toast list, and no step changes the toasts value of a consumer that
\* is not subscribed: an unmounted consumer is not notified.
C27_ConsumersInSync ==
    /\ [](\A c \in Consumers : consumerPc[c] = "synced" => toastState[c] = toasts)
    /\ [][\A c \in Consumers :
             (~Subscribed(c) /\ consumerPc'[c] = consumerPc[c])
             => toastState'[c] = toastState[c]]_vars

\* C27 witness: after two addToast calls c1, notified by the last call, shows
\* the global list of one toast, while c2 subscribed after that call and
\* still shows its initial empty list.
C27_Witness ==
    /\ toastCounter = 2
    /\ consumerPc["c1"] = "synced"
    /\ Len(toasts) = 1 /\ toastState["c1"] = toasts
    /\ consumerPc["c2"] = "subscribed"
    /\ "c2" \in listeners
    /\ toastState["c2"] = <<>>

(***************************************************************************)
(* Properties of the dashboard refresh                                     *)
(***************************************************************************)

\* a step in which a call of fetchDashboardData finishes
RefreshFinishes == refreshing' # refreshing /\ refreshing' \subseteq refreshing

\* C28: a refresh sets metrics, stores and chart data to what its three
\* fetches gave, or, when one of them failed, leaves all three as they were;
\* loading is true while a refresh is under way and false once it finished.
C28_RefreshAllOrNothing ==
    /\ [][RefreshFinishes =>
            \/ /\ metrics' = lastRefresh'.metrics
               /\ stores' = lastRefresh'.stores
               /\ chartData' = lastRefresh'.chartData
            \/ /\ "rejected" \in {lastRefresh'.metrics, lastRefresh'.stores,
                                  lastRefresh'.chartData}
               /\ UNCHANGED <<metrics, stores, chartData>>]_vars
    /\ [][RefreshFinishes => ~dashLoading']_vars
    /\ [](refreshing # {} => dashLoading)
(***************************************************************************)
(* Properties of handleCreateSchedule                                      *)
(***************************************************************************)

\* a step of handleCreateSchedule up to its await
SubmitStep == createEvent' \in {"rejected", "sent"}

\* a step of handleCreateSchedule after its await
SettleStep == createPc = "awaiting" /\ createPc' = "idle"

\* C29: a submit with an empty store_id or cron_expression sends no request;
\* a request that ends with a response that is not OK or with a failed fetch
\* leaves the dialog and the form as they are and starts no refetch; an OK
\* response closes the dialog, sets the form to its defaults and starts one
\* refetch; and no other step of the handler closes the dialog or refetches.
C29_CreateSchedule ==
    [][/\ SubmitStep =>
            /\ (newSchedule.store_id = "" \/ newSchedule.cron_expression = "")
                 => (postsSent' = postsSent /\ createPc' = createPc)
            /\ (newSchedule.store_id # "" /\ newSchedule.cron_expression # "")
                 => postsSent' = postsSent + 1
            /\ UNCHANGED <<isCreating, newSchedule, fetchPending>>
       /\ (SettleStep /\ createEvent' # "ok") =>
            UNCHANGED <<isCreating, newSchedule, fetchPending>>
       /\ (SettleStep /\ createEvent' = "ok") =>
            /\ ~isCreating'
            /\ newSchedule' = DefaultNewSchedule
            /\ fetchPending' = fetchPending + 1]_vars

\* C29 witness: a request sent with both fields filled came back not OK: the
\* dialog is still open with the values the user entered.
C29_Witness ==
    /\ createEvent = "not_ok"
    /\ isCreating
    /\ newSchedule.store_id = "store-a"
    /\ newSchedule.cron_expression = "0 23 * * 1"
    /\ postsSent = 1
(***************************************************************************)
(* Properties of name normalization                                        *)
(***************************************************************************)

\* C30: normalizing a normalized name gives the same name again, also when
\* the raw name starts with a repeated store prefix.
C30_NormalizeIdempotent ==
    normalize_product_name(normalized) = normalized

====
